---- MODULE Spec2Model ----
(***************************************************************************)
(* Spending Analysis Dashboard: aggregation engine, filter engine, export  *)
(* serializer and CSV ingestion, modelled from src/src/lib/*.ts and the    *)
(* filter / export utilities.                                              *)
(*                                                                         *)
(* Conventions                                                             *)
(*   - a string is a sequence of one-character strings;                    *)
(*   - an optional value (T | undefined) is <<>> (undefined) or <<v>>;     *)
(*   - a Date is an integer number of ticks; calendar fields are derived   *)
(*     from it by division (local time = UTC, no daylight saving);         *)
(*   - a money amount is an integer number of cents.                       *)
(***************************************************************************)
EXTENDS Integers, Sequences, FiniteSets, TLC

VARIABLES pc, transactions, filters, categories, periods, filtered,
          refiltered, rawRows, ingested, csvFile, reingested,
          validationConfig, papaResults,
          summaryStats, netCategories, trends, rowResult,
          error, isLoading, fileName, uploads

vars == <<pc, transactions, filters, categories, periods, filtered,
          refiltered, rawRows, ingested, csvFile, reingested,
          validationConfig, papaResults,
          summaryStats, netCategories, trends, rowResult,
          error, isLoading, fileName, uploads>>

----------------------------------------------------------------------------
(* Bounds of the model                                                     *)

MaxTx == 3
MaxAmount == 2
MaxPeriodTx == 3
MaxFilterTx == 2
MaxCsvRows == 2
NumYears == 2
MonthsPerYear == 2
DaysPerMonth == 2
TicksPerDay == 3
MaxUploads == 2

----------------------------------------------------------------------------
(* Optional values and generic sequence helpers                            *)

None == <<>>
Some(v) == <<v>>
IsSome(o) == o # <<>>

SeqsUpTo(S, n) == UNION {[1..k -> S] : k \in 0..n}

Range(s) == {s[i] : i \in 1..Len(s)}

Abs(n) == IF n < 0 THEN -n ELSE n

----------------------------------------------------------------------------
(* Dates: ticks since the start of the year 2024 of the model calendar     *)

TicksPerMonth == DaysPerMonth * TicksPerDay
TicksPerYear == MonthsPerYear * TicksPerMonth
MaxTime == NumYears * TicksPerYear - 1
Times == 0..MaxTime

(* new Date(year, monthIndex, day, ...) with 0-based month, day and tick;   *)
(* tick 0 is the first instant of the year 2024                            *)
MakeDate(y, m, d, k) ==
    (y - 2024) * TicksPerYear + m * TicksPerMonth + d * TicksPerDay + k

getTime(d) == d
getFullYear(d) == 2024 + (d \div TicksPerYear)
getMonth(d) == (d % TicksPerYear) \div TicksPerMonth
getDate(d) == ((d % TicksPerMonth) \div TicksPerDay) + 1
getTickOfDay(d) == d % TicksPerDay

----------------------------------------------------------------------------
(* Strings used by the model                                               *)

UNCATEGORIZED_CATEGORY ==
    <<"U","n","c","a","t","e","g","o","r","i","z","e","d">>
Dining == <<"D","i","n","i","n","g">>
Groceries == <<"G","r","o","c","e","r","i","e","s">>
Purchase == <<"p","u","r","c","h","a","s","e">>
Completed == <<"c","o","m","p","l","e","t","e","d">>
CoffeeShop == <<"C","o","f","f","e","e">>
Card1234 == <<"1","2","3","4">>
JaneDoe == <<"J","a","n","e">>

(* A Transaction with the fields the aggregators do not read held fixed    *)
Tx(ts, desc, amt, cash, cat) ==
    [timestamp |-> ts, type |-> Purchase, description |-> desc,
     status |-> Completed, amountUsd |-> amt, card |-> Card1234,
     cardHolderName |-> JaneDoe, originalAmount |-> None,
     originalCurrency |-> None, cashbackEarned |-> cash, category |-> cat]

----------------------------------------------------------------------------
(* Aggregation engine: src/src/lib/dataAggregation.ts                      *)

(* transaction.category || UNCATEGORIZED_CATEGORY *)
categoryOf(t) ==
    IF IsSome(t.category) /\ t.category[1] # <<>>
    THEN t.category[1] ELSE UNCATEGORIZED_CATEGORY

(* transaction.cashbackEarned || 0 *)
cashbackOf(t) ==
    IF IsSome(t.cashbackEarned) THEN t.cashbackEarned[1] ELSE 0

RECURSIVE SumAmountUsd(_)
SumAmountUsd(ts) ==
    IF ts = <<>> THEN 0
    ELSE SumAmountUsd(SubSeq(ts, 1, Len(ts) - 1)) + ts[Len(ts)].amountUsd

(* The insertion-ordered Map built by the forEach: one entry per category, *)
(* in the order the category is first met.                                 *)
IndexOfName(m, name) ==
    IF \E i \in 1..Len(m) : m[i].name = name
    THEN CHOOSE i \in 1..Len(m) : m[i].name = name
    ELSE 0

RECURSIVE categoryMapOf(_)
categoryMapOf(ts) ==
    IF ts = <<>> THEN <<>>
    ELSE LET m == categoryMapOf(SubSeq(ts, 1, Len(ts) - 1))
             t == ts[Len(ts)]
             k == IndexOfName(m, categoryOf(t))
         IN IF k = 0
            THEN Append(m, [name |-> categoryOf(t), total |-> t.amountUsd,
                            cashback |-> cashbackOf(t), count |-> 1])
            ELSE [m EXCEPT ![k] = [name |-> m[k].name,
                                   total |-> m[k].total + t.amountUsd,
                                   cashback |-> m[k].cashback + cashbackOf(t),
                                   count |-> m[k].count + 1]]

(* percentageOfTotal as the exact quotient num / den (den # 0)             *)
percentage(part, whole) ==
    IF whole # 0 THEN [num |-> part * 100, den |-> whole]
    ELSE [num |-> 0, den |-> 1]

(* .filter((cat) => cat.totalAmount > 0) *)
categoryKept(cat) == cat.totalAmount > 0

(* comparator of .sort((a, b) => b.totalAmount - a.totalAmount) *)
categoryCompareAscending(a, b) == a.totalAmount - b.totalAmount
categoryCompare(a, b) == b.totalAmount - a.totalAmount

(* Array.prototype.sort is stable: an element goes after every element     *)
(* the comparator does not put behind it.                                  *)
RECURSIVE insertCategory(_, _)
insertCategory(sorted, c) ==
    IF sorted = <<>> THEN <<c>>
    ELSE IF categoryCompare(sorted[Len(sorted)], c) <= 0
         THEN Append(sorted, c)
         ELSE Append(insertCategory(SubSeq(sorted, 1, Len(sorted) - 1), c),
                     sorted[Len(sorted)])

RECURSIVE sortCategories(_)
sortCategories(cs) ==
    IF cs = <<>> THEN <<>>
    ELSE insertCategory(sortCategories(SubSeq(cs, 1, Len(cs) - 1)),
                        cs[Len(cs)])

calculateCategories(ts) ==
    IF Len(ts) = 0 THEN <<>>
    ELSE LET totalSpending == SumAmountUsd(ts)
             m == categoryMapOf(ts)
             mapped == [i \in 1..Len(m) |->
                          [name |-> m[i].name,
                           totalAmount |-> m[i].total,
                           transactionCount |-> m[i].count,
                           percentageOfTotal |->
                               percentage(m[i].total, totalSpending)]]
         IN sortCategories(SelectSeq(mapped, categoryKept))

RECURSIVE SumNet(_)
SumNet(m) ==
    IF m = <<>> THEN 0
    ELSE SumNet(SubSeq(m, 1, Len(m) - 1))
         + (m[Len(m)].total - m[Len(m)].cashback)

calculateNetSpendingByCategory(ts) ==
    IF Len(ts) = 0 THEN <<>>
    ELSE LET m == categoryMapOf(ts)
             totalNetSpending == SumNet(m)
             mapped == [i \in 1..Len(m) |->
                          [name |-> m[i].name,
                           totalAmount |-> m[i].total - m[i].cashback,
                           transactionCount |-> m[i].count,
                           percentageOfTotal |->
                               percentage(m[i].total - m[i].cashback,
                                          totalNetSpending)]]
         IN sortCategories(SelectSeq(mapped, categoryKept))

(* --- calculateTimePeriods ---------------------------------------------- *)

(* periodKey = `${year}-${String(month + 1).padStart(2, '0')}` *)
periodKeyMonthOnly(d) == <<0, getMonth(d) + 1>>
periodKey(d) == <<getFullYear(d), getMonth(d) + 1>>

IndexOfKey(m, key) ==
    IF \E i \in 1..Len(m) : m[i].key = key
    THEN CHOOSE i \in 1..Len(m) : m[i].key = key
    ELSE 0

(* periodMap: insertion-ordered Map from periodKey to the transactions of  *)
(* that month, in input order                                              *)
RECURSIVE periodMapOf(_)
periodMapOf(ts) ==
    IF ts = <<>> THEN <<>>
    ELSE LET m == periodMapOf(SubSeq(ts, 1, Len(ts) - 1))
             t == ts[Len(ts)]
             k == IndexOfKey(m, periodKey(t.timestamp))
         IN IF k = 0
            THEN Append(m, [key |-> periodKey(t.timestamp), txs |-> <<t>>])
            ELSE [m EXCEPT ![k] = [key |-> m[k].key,
                                   txs |-> Append(m[k].txs, t)]]

(* .sort((a, b) => a.getTime() - b.getTime()) on an array of Dates *)
RECURSIVE insertDate(_, _)
insertDate(sorted, d) ==
    IF sorted = <<>> THEN <<d>>
    ELSE IF getTime(sorted[Len(sorted)]) - getTime(d) <= 0
         THEN Append(sorted, d)
         ELSE Append(insertDate(SubSeq(sorted, 1, Len(sorted) - 1), d),
                     sorted[Len(sorted)])

RECURSIVE sortDates(_)
sortDates(ds) ==
    IF ds = <<>> THEN <<>>
    ELSE insertDate(sortDates(SubSeq(ds, 1, Len(ds) - 1)), ds[Len(ds)])

monthNames ==
    <<"Jan", "Feb", "Mar", "Apr", "May", "Jun",
      "Jul", "Aug", "Sep", "Oct", "Nov", "Dec">>

(* comparator of .sort((a, b) => a.periodStart.getTime() - ...) *)
periodCompare(a, b) == getTime(a.periodStart) - getTime(b.periodStart)

RECURSIVE insertPeriod(_, _)
insertPeriod(sorted, p) ==
    IF sorted = <<>> THEN <<p>>
    ELSE IF periodCompare(sorted[Len(sorted)], p) <= 0
         THEN Append(sorted, p)
         ELSE Append(insertPeriod(SubSeq(sorted, 1, Len(sorted) - 1), p),
                     sorted[Len(sorted)])

RECURSIVE sortPeriods(_)
sortPeriods(ps) ==
    IF ps = <<>> THEN <<>>
    ELSE insertPeriod(sortPeriods(SubSeq(ps, 1, Len(ps) - 1)), ps[Len(ps)])

(* averageTransaction as the exact quotient num / den *)
average(total, count) ==
    IF count > 0 THEN [num |-> total, den |-> count]
    ELSE [num |-> 0, den |-> 1]

calculateTimePeriods(ts) ==
    IF Len(ts) = 0 THEN <<>>
    ELSE LET m == periodMapOf(ts)
             mapped == [i \in 1..Len(m) |->
                LET periodTransactions == m[i].txs
                    dates == sortDates([j \in 1..Len(periodTransactions) |->
                                           periodTransactions[j].timestamp])
                    totalSpending == SumAmountUsd(periodTransactions)
                    transactionCount == Len(periodTransactions)
                IN [periodLabel |-> [month |-> monthNames[m[i].key[2]],
                                     year |-> m[i].key[1]],
                    periodStart |-> dates[1],
                    periodEnd |-> dates[Len(dates)],
                    totalSpending |-> totalSpending,
                    transactionCount |-> transactionCount,
                    averageTransaction |->
                        average(totalSpending, transactionCount)]]
         IN sortPeriods(mapped)

----------------------------------------------------------------------------
(* Specification of the category aggregators                               *)

(* DEFAULT_VALIDATION_CONFIG *)
DEFAULT_VALIDATION_CONFIG ==
    [maxFileSizeBytes |-> 10 * 1024 * 1024, maxTransactions |-> 10000,
     strictMode |-> FALSE]

NoResult == [transactions |-> <<>>, errors |-> <<>>, warnings |-> <<>>]
NoFile == [name |-> <<>>, size |-> 0, text |-> <<>>]
NoPapaResults == [fields |-> <<>>, data |-> <<>>]

(* the state of the aggregation results, of the row parser's call and of  *)
(* the dashboard page, and their values where these play no part          *)
aggregateVars == <<summaryStats, netCategories, trends, rowResult>>
dashboardVars == <<error, isLoading, fileName, uploads>>

NothingAggregated ==
    /\ summaryStats = <<>>
    /\ netCategories = <<>>
    /\ trends = <<>>
    /\ rowResult = <<>>

NoDashboard ==
    /\ error = None
    /\ isLoading = FALSE
    /\ fileName = None
    /\ uploads = <<>>

EmptyFilterState ==
    [searchTerm |-> None, selectedCategories |-> None,
     dateRangeStart |-> None, dateRangeEnd |-> None, activeFilterCount |-> 0]

(* Purchases, refunds and zero amounts in three categories; a purchase may  *)
(* have earned cashback.                                                   *)
CatPool ==
    {Tx(0, CoffeeShop, a, None, cat) :
        a \in (-1)..MaxAmount,
        cat \in {None, Some(Dining), Some(Groceries)}}
    \cup
    {Tx(0, CoffeeShop, a, Some(1), cat) :
        a \in 1..MaxAmount,
        cat \in {None, Some(Dining), Some(Groceries)}}

Idle ==
    /\ filters = EmptyFilterState
    /\ categories = <<>>
    /\ periods = <<>>
    /\ filtered = <<>>
    /\ refiltered = <<>>
    /\ rawRows = <<>>
    /\ ingested = NoResult
    /\ csvFile = NoFile
    /\ reingested = NoResult
    /\ validationConfig = DEFAULT_VALIDATION_CONFIG
    /\ papaResults = NoPapaResults
    /\ NothingAggregated
    /\ NoDashboard

InitCat ==
    /\ pc = "init"
    /\ transactions \in SeqsUpTo(CatPool, MaxTx)
    /\ Idle

CalculateCategories ==
    /\ pc = "init"
    /\ categories' = calculateCategories(transactions)
    /\ pc' = "categories"
    /\ UNCHANGED <<validationConfig, papaResults, aggregateVars, dashboardVars,
                   transactions, filters, periods, filtered, refiltered,
                   rawRows, ingested,
                   csvFile, reingested>>

CalculateNetSpendingByCategory ==
    /\ pc = "init"
    /\ categories' = calculateNetSpendingByCategory(transactions)
    /\ pc' = "netCategories"
    /\ UNCHANGED <<validationConfig, papaResults, aggregateVars, dashboardVars,
                   transactions, filters, periods, filtered, refiltered,
                   rawRows, ingested,
                   csvFile, reingested>>

NextCat == CalculateCategories \/ CalculateNetSpendingByCategory

SpecCat == InitCat /\ [][NextCat]_vars

----------------------------------------------------------------------------
(* Properties of the category aggregators                                  *)

CategoryNames(ts) == {categoryOf(ts[i]) : i \in 1..Len(ts)}

RECURSIVE SumOfCategory(_, _)
SumOfCategory(ts, name) ==
    IF ts = <<>> THEN 0
    ELSE (IF categoryOf(ts[1]) = name THEN ts[1].amountUsd ELSE 0)
         + SumOfCategory(Tail(ts), name)

RECURSIVE SumTotalAmount(_)
SumTotalAmount(cs) ==
    IF cs = <<>> THEN 0 ELSE cs[1].totalAmount + SumTotalAmount(Tail(cs))

FirstEncounter(ts, name) ==
    CHOOSE i \in 1..Len(ts) :
        /\ categoryOf(ts[i]) = name
        /\ \A j \in 1..(i - 1) : categoryOf(ts[j]) # name

InOutput(cs, name) == \E i \in 1..Len(cs) : cs[i].name = name

PercentageInRange(p) ==
    IF p.den > 0 THEN 0 <= p.num /\ p.num <= 100 * p.den
    ELSE 100 * p.den <= p.num /\ p.num <= 0

(* C1: calculateCategories drops a category if and only if its summed      *)
(* amount is exactly zero: every category with a non-zero sum (negative    *)
(* sums included) is in the output, every category with a zero sum is not. *)
C1_DropsExactlyZeroSums ==
    pc = "categories" =>
        \A n \in CategoryNames(transactions) :
            InOutput(categories, n) <=> SumOfCategory(transactions, n) # 0

(* C2: for a non-empty collection the totalAmount values of the output of  *)
(* calculateCategories add up to the sum of amountUsd over the input.      *)
C2_TotalsAddUpToInput ==
    (pc = "categories" /\ Len(transactions) > 0) =>
        SumTotalAmount(categories) = SumAmountUsd(transactions)

(* C3: the output of calculateCategories is non-increasing by totalAmount, *)
(* categories with equal totalAmount keep the order in which they were     *)
(* first met in the input, and no element has totalAmount 0.               *)
C3_SortedStableNonZero ==
    pc = "categories" =>
        /\ \A i \in 1..(Len(categories) - 1) :
              categories[i].totalAmount >= categories[i + 1].totalAmount
        /\ \A i, j \in 1..Len(categories) :
              (i < j /\ categories[i].totalAmount = categories[j].totalAmount)
              => FirstEncounter(transactions, categories[i].name)
                 < FirstEncounter(transactions, categories[j].name)
        /\ \A i \in 1..Len(categories) : categories[i].totalAmount # 0

(* a three-category output with a strict step followed by a tie *)
C3_Witness ==
    /\ pc = "categories"
    /\ Len(categories) = 3
    /\ categories[1].totalAmount > categories[2].totalAmount
    /\ categories[2].totalAmount = categories[3].totalAmount
    /\ categoryOf(transactions[1]) = categories[1].name

(* C4: every Category returned by calculateCategories or                   *)
(* calculateNetSpendingByCategory has percentageOfTotal between 0 and 100. *)
C4_PercentageWithin0And100 ==
    pc \in {"categories", "netCategories"} =>
        \A i \in 1..Len(categories) :
            PercentageInRange(categories[i].percentageOfTotal)

----------------------------------------------------------------------------
(* Specification of the monthly aggregation                                *)

(* the first and the last instant of every month of the model calendar *)
PeriodTimes ==
    {MakeDate(2024 + y, m, 0, 0) : y \in 0..(NumYears - 1),
                                   m \in 0..(MonthsPerYear - 1)}
    \cup
    {MakeDate(2024 + y, m, DaysPerMonth - 1, TicksPerDay - 1) :
        y \in 0..(NumYears - 1), m \in 0..(MonthsPerYear - 1)}

PeriodPool == {Tx(t, CoffeeShop, 1, None, Some(Dining)) : t \in PeriodTimes}

InitPeriod ==
    /\ pc = "init"
    /\ transactions \in SeqsUpTo(PeriodPool, MaxPeriodTx)
    /\ Idle

CalculateTimePeriods ==
    /\ pc = "init"
    /\ periods' = calculateTimePeriods(transactions)
    /\ pc' = "periods"
    /\ UNCHANGED <<validationConfig, papaResults, aggregateVars, dashboardVars,
                   transactions, filters, categories, filtered, refiltered,
                   rawRows, ingested,
                   csvFile, reingested>>

NextPeriod == CalculateTimePeriods

SpecPeriod == InitPeriod /\ [][NextPeriod]_vars

SameMonth(d1, d2) ==
    getFullYear(d1) = getFullYear(d2) /\ getMonth(d1) = getMonth(d2)

RECURSIVE SumTransactionCount(_)
SumTransactionCount(ps) ==
    IF ps = <<>> THEN 0
    ELSE ps[1].transactionCount + SumTransactionCount(Tail(ps))

(* the periods whose [periodStart, periodEnd] span holds the instant d *)
PeriodsHolding(ps, d) ==
    {i \in 1..Len(ps) : ps[i].periodStart <= d /\ d <= ps[i].periodEnd}

(* C5: calculateTimePeriods returns periods strictly ascending by          *)
(* periodStart; every input transaction is counted in exactly one period   *)
(* (the counts add up to the input length) and two transactions share a    *)
(* period exactly when they have the same calendar year and month.         *)
C5_PeriodsAscendingAndPartition ==
    pc = "periods" =>
        /\ \A i \in 1..(Len(periods) - 1) :
              periods[i].periodStart < periods[i + 1].periodStart
        /\ SumTransactionCount(periods) = Len(transactions)
        /\ \A i \in 1..Len(transactions) :
              Cardinality(PeriodsHolding(periods,
                                         transactions[i].timestamp)) = 1
        /\ \A i, j \in 1..Len(transactions) :
              (PeriodsHolding(periods, transactions[i].timestamp)
               = PeriodsHolding(periods, transactions[j].timestamp))
              <=> SameMonth(transactions[i].timestamp,
                            transactions[j].timestamp)
        /\ \A k \in 1..Len(periods) :
              periods[k].transactionCount =
                  Cardinality({i \in 1..Len(transactions) :
                      SameMonth(transactions[i].timestamp,
                                periods[k].periodStart)})

(* two months of different years with the same month number, met out of    *)
(* chronological order, one of them holding two transactions               *)
C5_Witness ==
    /\ pc = "periods"
    /\ Len(transactions) = 3
    /\ Len(periods) = 2
    /\ getMonth(periods[1].periodStart) = getMonth(periods[2].periodStart)
    /\ transactions[1].timestamp > transactions[3].timestamp
    /\ periods[1].transactionCount = 2

----------------------------------------------------------------------------
(* String functions of the JavaScript runtime used by the filter engine    *)

upperChars ==
    <<"A","B","C","D","E","F","G","H","I","J","K","L","M",
      "N","O","P","Q","R","S","T","U","V","W","X","Y","Z">>
lowerChars ==
    <<"a","b","c","d","e","f","g","h","i","j","k","l","m",
      "n","o","p","q","r","s","t","u","v","w","x","y","z">>

toLowerChar(c) ==
    IF \E k \in 1..26 : upperChars[k] = c
    THEN lowerChars[CHOOSE k \in 1..26 : upperChars[k] = c]
    ELSE c

toLowerCaseIdentity(s) == s
toLowerCase(s) == [i \in 1..Len(s) |-> toLowerChar(s[i])]

includes(s, sub) ==
    \E k \in 0..(Len(s) - Len(sub)) : SubSeq(s, k + 1, k + Len(sub)) = sub

(* the byte-order mark, one character *)
BOM == "BOM"

(* what trim() and \s take for white space *)
whitespace == {" ", "\t", "\n", "\r", BOM}

RECURSIVE trimStart(_)
trimStart(s) ==
    IF s # <<>> /\ s[1] \in whitespace THEN trimStart(Tail(s)) ELSE s

RECURSIVE trimEnd(_)
trimEnd(s) ==
    IF s # <<>> /\ s[Len(s)] \in whitespace
    THEN trimEnd(SubSeq(s, 1, Len(s) - 1)) ELSE s

trim(s) == trimEnd(trimStart(s))

----------------------------------------------------------------------------
(* Column names: RawCSVRow keys and the export header (char sequences)     *)

COL_timestamp ==
    <<"t","i","m","e","s","t","a","m","p">>
COL_type ==
    <<"t","y","p","e">>
COL_description ==
    <<"d","e","s","c","r","i","p","t","i","o","n">>
COL_status ==
    <<"s","t","a","t","u","s">>
COL_amountUsd ==
    <<"a","m","o","u","n","t"," ","U","S","D">>
COL_card ==
    <<"c","a","r","d">>
COL_cardHolderName ==
    <<"c","a","r","d"," ","h","o","l","d","e","r"," ","n","a","m","e">>
COL_originalAmount ==
    <<"o","r","i","g","i","n","a","l"," ","a","m","o","u","n","t">>
COL_originalCurrency ==
    <<"o","r","i","g","i","n","a","l"," ","c","u","r","r","e","n","c","y">>
COL_cashbackEarned ==
    <<"c","a","s","h","b","a","c","k"," ","e","a","r","n","e","d">>
COL_category ==
    <<"c","a","t","e","g","o","r","y">>

(* REQUIRED_CSV_COLUMNS *)
REQUIRED_CSV_COLUMNS ==
    <<COL_timestamp, COL_type, COL_description, COL_status, COL_amountUsd,
      COL_card, COL_cardHolderName>>

(* headerMap of normalizeHeader: accepted spelling -> canonical column *)
normalizeHeaderMap ==
    <<<<<<"t","i","m","e","s","t","a","m","p">>,
        COL_timestamp>>,
      <<<<"d","a","t","e">>,
        COL_timestamp>>,
      <<<<"t","i","m","e">>,
        COL_timestamp>>,
      <<<<"t","y","p","e">>,
        COL_type>>,
      <<<<"t","r","a","n","s","a","c","t","i","o","n"," ","t","y","p","e">>,
        COL_type>>,
      <<<<"d","e","s","c","r","i","p","t","i","o","n">>,
        COL_description>>,
      <<<<"m","e","r","c","h","a","n","t">>,
        COL_description>>,
      <<<<"s","t","a","t","u","s">>,
        COL_status>>,
      <<<<"t","r","a","n","s","a","c","t","i","o","n"," ","s","t","a","t","u","s">>,
        COL_status>>,
      <<<<"a","m","o","u","n","t"," ","u","s","d">>,
        COL_amountUsd>>,
      <<<<"a","m","o","u","n","t">>,
        COL_amountUsd>>,
      <<<<"c","a","r","d">>,
        COL_card>>,
      <<<<"c","a","r","d"," ","n","u","m","b","e","r">>,
        COL_card>>,
      <<<<"c","a","r","d"," ","h","o","l","d","e","r"," ","n","a","m","e">>,
        COL_cardHolderName>>,
      <<<<"c","a","r","d","h","o","l","d","e","r">>,
        COL_cardHolderName>>,
      <<<<"c","a","r","d","h","o","l","d","e","r"," ","n","a","m","e">>,
        COL_cardHolderName>>,
      <<<<"o","r","i","g","i","n","a","l"," ","a","m","o","u","n","t">>,
        COL_originalAmount>>,
      <<<<"o","r","i","g","i","n","a","l"," ","c","u","r","r","e","n","c","y">>,
        COL_originalCurrency>>,
      <<<<"c","u","r","r","e","n","c","y">>,
        COL_originalCurrency>>,
      <<<<"c","a","s","h","b","a","c","k"," ","e","a","r","n","e","d">>,
        COL_cashbackEarned>>,
      <<<<"c","a","s","h","b","a","c","k">>,
        COL_cashbackEarned>>,
      <<<<"r","e","w","a","r","d","s">>,
        COL_cashbackEarned>>,
      <<<<"c","a","t","e","g","o","r","y">>,
        COL_category>>>>

----------------------------------------------------------------------------
(* Numbers and dates as text                                               *)

digitChars == <<"0","1","2","3","4","5","6","7","8","9">>

isDigit(c) == \E k \in 1..10 : digitChars[k] = c
digitValue(c) == (CHOOSE k \in 1..10 : digitChars[k] = c) - 1
digitChar(n) == digitChars[n + 1]

RECURSIVE natToString(_)
natToString(n) ==
    IF n < 10 THEN <<digitChar(n)>>
    ELSE natToString(n \div 10) \o <<digitChar(n % 10)>>

RECURSIVE digitsToNat(_)
digitsToNat(ds) ==
    IF ds = <<>> THEN 0
    ELSE digitsToNat(SubSeq(ds, 1, Len(ds) - 1)) * 10
         + digitValue(ds[Len(ds)])

RECURSIVE takeDigits(_)
takeDigits(s) ==
    IF s # <<>> /\ isDigit(s[1]) THEN <<s[1]>> \o takeDigits(Tail(s))
    ELSE <<>>

Drop(s, n) == SubSeq(s, n + 1, Len(s))

padStart2(ds) == IF Len(ds) < 2 THEN <<"0">> \o ds ELSE ds
padStart4(ds) ==
    IF Len(ds) >= 4 THEN ds
    ELSE [i \in 1..(4 - Len(ds)) |-> "0"] \o ds

(* Number.prototype.toString of an amount held in cents: plain decimal     *)
(* text, no trailing zeros, no decimal point for a whole number            *)
numberToString(v) ==
    LET a == Abs(v)
        fr == a % 100
    IN (IF v < 0 THEN <<"-">> ELSE <<>>)
       \o natToString(a \div 100)
       \o (IF fr = 0 THEN <<>>
           ELSE IF fr % 10 = 0 THEN <<".", digitChar(fr \div 10)>>
           ELSE <<".", digitChar(fr \div 10), digitChar(fr % 10)>>)

(* parseFloat: optional sign, digits, optional fraction; parsing stops at  *)
(* the first character that does not fit; None is NaN. Fraction digits     *)
(* beyond the cents are not represented.                                   *)
parseFloat(s) ==
    LET signed == s # <<>> /\ s[1] \in {"-", "+"}
        body == IF signed THEN Tail(s) ELSE s
        intPart == takeDigits(body)
        rest == Drop(body, Len(intPart))
        fracPart == IF rest # <<>> /\ rest[1] = "."
                    THEN takeDigits(Tail(rest)) ELSE <<>>
        cents == (IF Len(fracPart) >= 1 THEN 10 * digitValue(fracPart[1])
                  ELSE 0)
                 + (IF Len(fracPart) >= 2 THEN digitValue(fracPart[2])
                    ELSE 0)
        magnitude == digitsToNat(intPart) * 100 + cents
    IN IF intPart = <<>> /\ fracPart = <<>> THEN None
       ELSE Some(IF signed /\ s[1] = "-" THEN -magnitude ELSE magnitude)

(* value.replace(/[$,\s]/g, '') *)
RECURSIVE removeCurrencyFormatting(_)
removeCurrencyFormatting(s) ==
    IF s = <<>> THEN <<>>
    ELSE IF s[1] \in ({"$", ","} \cup whitespace)
         THEN removeCurrencyFormatting(Tail(s))
         ELSE <<s[1]>> \o removeCurrencyFormatting(Tail(s))

(* parseNumber(value): value is an optional string; None is null *)
parseNumber(value) ==
    IF ~IsSome(value) \/ value[1] = <<>> THEN None
    ELSE parseFloat(trim(removeCurrencyFormatting(value[1])))

(* Date.prototype.toISOString: YYYY-MM-DDTkkZ, kk the tick of the day *)
toISOString(d) ==
    padStart4(natToString(getFullYear(d))) \o <<"-">>
    \o padStart2(natToString(getMonth(d) + 1)) \o <<"-">>
    \o padStart2(natToString(getDate(d))) \o <<"T">>
    \o padStart2(natToString(getTickOfDay(d))) \o <<"Z">>

(* `${getMonth() + 1}/${getDate()}/${getFullYear()}` *)
toUSDateString(d) ==
    natToString(getMonth(d) + 1) \o <<"/">> \o natToString(getDate(d))
    \o <<"/">> \o natToString(getFullYear(d))

AllDigits(s) == \A i \in 1..Len(s) : isDigit(s[i])

(* new Date(text) for the ISO forms YYYY-MM-DD, YYYY-MM-DDTkk and          *)
(* YYYY-MM-DDTkkZ; None is an invalid Date                                 *)
parseISODate(s) ==
    IF /\ Len(s) \in {10, 13, 14}
       /\ AllDigits(SubSeq(s, 1, 4)) /\ s[5] = "-"
       /\ AllDigits(SubSeq(s, 6, 7)) /\ s[8] = "-"
       /\ AllDigits(SubSeq(s, 9, 10))
       /\ Len(s) >= 13 => (s[11] = "T" /\ AllDigits(SubSeq(s, 12, 13)))
       /\ Len(s) = 14 => s[14] = "Z"
    THEN LET y == digitsToNat(SubSeq(s, 1, 4))
             m == digitsToNat(SubSeq(s, 6, 7))
             d == digitsToNat(SubSeq(s, 9, 10))
             k == IF Len(s) >= 13 THEN digitsToNat(SubSeq(s, 12, 13)) ELSE 0
         IN IF m \in 1..MonthsPerYear /\ d \in 1..DaysPerMonth
               /\ k < TicksPerDay
            THEN Some(MakeDate(y, m - 1, d - 1, k))
            ELSE None
    ELSE None

(* match of /^(\d{1,2})SEP(\d{1,2})SEP(\d{4})$/: the three numbers, or None *)
matchTwoTwoFour(s, sep) ==
    LET a == takeDigits(s)
        r1 == Drop(s, Len(a))
        b == IF r1 # <<>> THEN takeDigits(Tail(r1)) ELSE <<>>
        r2 == IF r1 # <<>> THEN Drop(Tail(r1), Len(b)) ELSE <<>>
        c == IF r2 # <<>> THEN Tail(r2) ELSE <<>>
    IN IF /\ Len(a) \in {1, 2} /\ r1 # <<>> /\ r1[1] = sep
          /\ Len(b) \in {1, 2} /\ r2 # <<>> /\ r2[1] = sep
          /\ Len(c) = 4 /\ AllDigits(c)
       THEN Some(<<digitsToNat(a), digitsToNat(b), digitsToNat(c)>>)
       ELSE None

(* parseDate(dateString): ISO first, then MM/DD/YYYY, then DD-MM-YYYY *)
parseDate(dateString) ==
    IF ~IsSome(dateString) \/ dateString[1] = <<>> THEN None
    ELSE LET trimmed == trim(dateString[1])
             isoDate == parseISODate(trimmed)
             usDateMatch == matchTwoTwoFour(trimmed, "/")
             euDateMatch == matchTwoTwoFour(trimmed, "-")
         IN IF IsSome(isoDate) THEN isoDate
            ELSE IF IsSome(usDateMatch)
                 THEN Some(MakeDate(usDateMatch[1][3], usDateMatch[1][1] - 1,
                                    usDateMatch[1][2] - 1, 0))
            ELSE IF IsSome(euDateMatch)
                 THEN Some(MakeDate(euDateMatch[1][3], euDateMatch[1][2] - 1,
                                    euDateMatch[1][1] - 1, 0))
            ELSE None

----------------------------------------------------------------------------
(* Record parser and ingestion pipeline: src/src/lib/csvParser.ts          *)

(* row[key]: None when the row has no such key *)
rowGet(row, key) == IF key \in DOMAIN row THEN Some(row[key]) ELSE None

(* !row[field] || row[field].trim() === '' *)
isBlank(value) == ~IsSome(value) \/ value[1] = <<>> \/ trim(value[1]) = <<>>

trimOrUndefinedKeepingBlank(value) ==
    IF ~IsSome(value) THEN None ELSE Some(trim(value[1]))

(* value?.trim() || undefined *)
trimOrUndefined(value) ==
    IF isBlank(value) THEN None ELSE Some(trim(value[1]))

(* row[key] ? parseNumber(row[key]) ?? undefined : undefined *)
optionalNumber(value) ==
    IF ~IsSome(value) \/ value[1] = <<>> THEN None ELSE parseNumber(value)

requiredFields ==
    <<COL_type, COL_description, COL_status, COL_card, COL_cardHolderName>>

(* the last of the required fields that is blank, 0 if none *)
lastBlankRequiredField(row) ==
    IF \E i \in 1..Len(requiredFields) : isBlank(rowGet(row, requiredFields[i]))
    THEN CHOOSE i \in 1..Len(requiredFields) :
            /\ isBlank(rowGet(row, requiredFields[i]))
            /\ \A j \in (i + 1)..Len(requiredFields) :
                   ~isBlank(rowGet(row, requiredFields[j]))
    ELSE 0

(* the first of the required fields that is blank, 0 if none *)
firstBlankRequiredField(row) ==
    IF \E i \in 1..Len(requiredFields) : isBlank(rowGet(row, requiredFields[i]))
    THEN CHOOSE i \in 1..Len(requiredFields) :
            /\ isBlank(rowGet(row, requiredFields[i]))
            /\ \A j \in 1..(i - 1) : ~isBlank(rowGet(row, requiredFields[j]))
    ELSE 0

rowFailureWithWarning(type, message, rowNumber, column) ==
    [transaction |-> None,
     error |-> Some([type |-> type, message |-> message,
                     row |-> Some(rowNumber), column |-> column]),
     warning |-> Some([type |-> "MISSING_OPTIONAL_FIELD",
                       message |-> message, row |-> rowNumber])]

rowFailure(type, message, rowNumber, column) ==
    [transaction |-> None,
     error |-> Some([type |-> type, message |-> message,
                     row |-> Some(rowNumber), column |-> column]),
     warning |-> None]

(* the warning of a row that parsed, with the large-amount threshold     *)
(* reached at 10000 already                                               *)
rowWarningAtThreshold(category, amountUsd, rowNumber) ==
    IF ~IsSome(category)
    THEN Some([type |-> "MISSING_CATEGORY",
               message |-> <<"Missing category, assigned to",
                             rowNumber, UNCATEGORIZED_CATEGORY>>,
               row |-> rowNumber])
    ELSE IF Abs(amountUsd) >= 10000 * 100
    THEN Some([type |-> "LARGE_TRANSACTION",
               message |-> <<"Large transaction amount",
                             rowNumber, amountUsd>>,
               row |-> rowNumber])
    ELSE None

(* if (!category) MISSING_CATEGORY else if (Math.abs(amountUsd) > 10000)  *)
(* LARGE_TRANSACTION; the amount is in cents                              *)
rowWarning(category, amountUsd, rowNumber) ==
    IF ~IsSome(category)
    THEN Some([type |-> "MISSING_CATEGORY",
               message |-> <<"Missing category, assigned to",
                             rowNumber, UNCATEGORIZED_CATEGORY>>,
               row |-> rowNumber])
    ELSE IF Abs(amountUsd) > 10000 * 100
    THEN Some([type |-> "LARGE_TRANSACTION",
               message |-> <<"Large transaction amount",
                             rowNumber, amountUsd>>,
               row |-> rowNumber])
    ELSE None

parseTransactionRow(row, rowNumber) ==
    LET timestamp == parseDate(rowGet(row, COL_timestamp))
        amountUsd == parseNumber(rowGet(row, COL_amountUsd))
        blank == firstBlankRequiredField(row)
        category == trimOrUndefined(rowGet(row, COL_category))
    IN IF ~IsSome(timestamp)
       THEN rowFailure("INVALID_DATA_TYPE",
                       <<"Invalid date format in row", rowNumber,
                         rowGet(row, COL_timestamp)>>,
                       rowNumber, Some(COL_timestamp))
       ELSE IF ~IsSome(amountUsd)
       THEN rowFailure("INVALID_DATA_TYPE",
                       <<"Invalid amount value in row", rowNumber,
                         rowGet(row, COL_amountUsd)>>,
                       rowNumber, Some(COL_amountUsd))
       ELSE IF blank # 0
       THEN rowFailure("VALIDATION_FAILED",
                       <<"Required field is empty in row", rowNumber,
                         requiredFields[blank]>>,
                       rowNumber, Some(requiredFields[blank]))
       ELSE
         [transaction |-> Some(
            [timestamp |-> timestamp[1],
             type |-> trim(row[COL_type]),
             description |-> trim(row[COL_description]),
             status |-> trim(row[COL_status]),
             amountUsd |-> amountUsd[1],
             card |-> trim(row[COL_card]),
             cardHolderName |-> trim(row[COL_cardHolderName]),
             originalAmount |->
                 optionalNumber(rowGet(row, COL_originalAmount)),
             originalCurrency |->
                 trimOrUndefined(rowGet(row, COL_originalCurrency)),
             cashbackEarned |->
                 optionalNumber(rowGet(row, COL_cashbackEarned)),
             category |-> IF IsSome(category) THEN category
                          ELSE Some(UNCATEGORIZED_CATEGORY)]),
          error |-> None,
          warning |-> rowWarning(category, amountUsd[1], rowNumber)]

(* normalizeHeader: trim, lower-case, look the spelling up *)
normalizeHeader(header) ==
    LET normalized == toLowerCase(trim(header))
    IN IF \E k \in 1..Len(normalizeHeaderMap) :
              normalizeHeaderMap[k][1] = normalized
       THEN normalizeHeaderMap[CHOOSE k \in 1..Len(normalizeHeaderMap) :
                                  normalizeHeaderMap[k][1] = normalized][2]
       ELSE header

missingColumnErrorsFirstOnly(required, normalizedHeaders) ==
    IF \E i \in 1..Len(required) : required[i] \notin normalizedHeaders
    THEN LET first == CHOOSE i \in 1..Len(required) :
                         /\ required[i] \notin normalizedHeaders
                         /\ \A j \in 1..(i - 1) :
                               required[j] \in normalizedHeaders
         IN <<[type |-> "MISSING_COLUMN",
               message |-> <<"Required column is missing from CSV",
                             required[first]>>,
               row |-> None, column |-> Some(required[first])]>>
    ELSE <<>>

(* validateHeaders: one MISSING_COLUMN error per missing required column *)
RECURSIVE missingColumnErrors(_, _)
missingColumnErrors(required, normalizedHeaders) ==
    IF required = <<>> THEN <<>>
    ELSE (IF required[1] \in normalizedHeaders THEN <<>>
          ELSE <<[type |-> "MISSING_COLUMN",
                  message |-> <<"Required column is missing from CSV",
                                required[1]>>,
                  row |-> None, column |-> Some(required[1])]>>)
         \o missingColumnErrors(Tail(required), normalizedHeaders)

validateHeaders(headers) ==
    missingColumnErrors(REQUIRED_CSV_COLUMNS,
                        {normalizeHeader(headers[i]) : i \in 1..Len(headers)})

pushResultPrepending(acc, result) ==
    [transactions |-> result.transaction \o acc.transactions,
     errors |-> acc.errors \o result.error,
     warnings |-> acc.warnings \o result.warning]

(* the body of results.data.forEach: the row's transaction, error and     *)
(* warning are appended to the three lists                                 *)
pushResult(acc, result) ==
    [transactions |-> acc.transactions \o result.transaction,
     errors |-> acc.errors \o result.error,
     warnings |-> acc.warnings \o result.warning]

(* results.data.forEach: rows up to index n, row numbers index + 2 *)
RECURSIVE parseRows(_, _)
parseRows(data, n) ==
    IF n = 0 THEN [transactions |-> <<>>, errors |-> <<>>, warnings |-> <<>>]
    ELSE pushResult(parseRows(data, n - 1),
                    parseTransactionRow(data[n], (n - 1) + 2))

warningAsErrorWithoutRow(w) ==
    [type |-> "VALIDATION_FAILED", message |-> w.message,
     row |-> None, column |-> None]

warningAsError(w) ==
    [type |-> "VALIDATION_FAILED", message |-> w.message,
     row |-> Some(w.row), column |-> None]

countWarningsAtLimit(parsed, config) ==
    IF Len(parsed) >= config.maxTransactions
    THEN <<[type |-> "LARGE_TRANSACTION",
            message |-> <<"Transaction count exceeds maximum",
                          Len(parsed), config.maxTransactions>>,
            row |-> 0]>>
    ELSE <<>>

(* the transaction count check: one more warning above maxTransactions *)
countWarnings(parsed, config) ==
    IF Len(parsed) > config.maxTransactions
    THEN <<[type |-> "LARGE_TRANSACTION",
            message |-> <<"Transaction count exceeds maximum",
                          Len(parsed), config.maxTransactions>>,
            row |-> 0]>>
    ELSE <<>>

resolveResultKeepingTransactions(parsed, errors, warnings, config) ==
    IF config.strictMode /\ Len(warnings) > 0
    THEN [transactions |-> parsed,
          errors |-> errors \o [i \in 1..Len(warnings) |->
                                   warningAsError(warnings[i])],
          warnings |-> <<>>]
    ELSE [transactions |-> parsed, errors |-> errors,
          warnings |-> warnings]

(* the result according to strict mode *)
resolveResult(parsed, errors, warnings, config) ==
    IF config.strictMode /\ Len(warnings) > 0
    THEN [transactions |-> <<>>,
          errors |-> errors \o [i \in 1..Len(warnings) |->
                                   warningAsError(warnings[i])],
          warnings |-> <<>>]
    ELSE [transactions |-> parsed, errors |-> errors,
          warnings |-> warnings]

resolveParsed(acc, config) ==
    resolveResult(acc.transactions, acc.errors,
                  acc.warnings \o countWarnings(acc.transactions, config),
                  config)

headerFailure(headerErrors) ==
    [transactions |-> <<>>, errors |-> headerErrors, warnings |-> <<>>]

parseCompleteWithoutEmptyCheck(data, fields, config) ==
    IF Len(validateHeaders(fields)) > 0
    THEN headerFailure(validateHeaders(fields))
    ELSE resolveParsed(parseRows(data, Len(data)), config)

(* the `complete` callback: data rows and header fields as Papa gives them *)
parseComplete(data, fields, config) ==
    IF Len(data) = 0
    THEN [transactions |-> <<>>,
          errors |-> <<[type |-> "EMPTY_FILE",
                        message |-> <<"CSV file contains no data rows">>,
                        row |-> None, column |-> None]>>,
          warnings |-> <<>>]
    ELSE IF Len(validateHeaders(fields)) > 0
    THEN headerFailure(validateHeaders(fields))
    ELSE resolveParsed(parseRows(data, Len(data)), config)

(* --- Papa.parse(file, {header: true, skipEmptyLines: true,              *)
(*                       transformHeader: normalizeHeader}) ---------------- *)

(* Comma-delimited text with double-quote quoting (RFC 4180), lines ended  *)
(* by "\n". A character is inside a quoted field exactly when an odd       *)
(* number of quote characters precedes it.                                 *)
insideQuotes(text, i) ==
    Cardinality({j \in 1..(i - 1) : text[j] = "\""}) % 2 = 1

(* the positions of the separator character sep that are not quoted *)
separators(text, sep) ==
    {i \in 1..Len(text) : text[i] = sep /\ ~insideQuotes(text, i)}

(* the pieces of text between the positions of cuts, in order *)
splitAt(text, cuts) ==
    LET bound(k) == IF k = 0 THEN 0
                    ELSE IF k > Cardinality(cuts) THEN Len(text) + 1
                    ELSE CHOOSE i \in cuts :
                            Cardinality({j \in cuts : j <= i}) = k
    IN [k \in 1..(Cardinality(cuts) + 1) |->
           SubSeq(text, bound(k - 1) + 1, bound(k) - 1)]

(* "" inside a quoted field stands for one quote character *)
RECURSIVE collapseQuotes(_)
collapseQuotes(s) ==
    IF s = <<>> THEN <<>>
    ELSE IF s[1] = "\"" /\ Len(s) >= 2 /\ s[2] = "\""
         THEN <<"\"">> \o collapseQuotes(Drop(s, 2))
         ELSE <<s[1]>> \o collapseQuotes(Tail(s))

unquoteField(raw) ==
    IF Len(raw) >= 2 /\ raw[1] = "\"" /\ raw[Len(raw)] = "\""
    THEN collapseQuotes(SubSeq(raw, 2, Len(raw) - 1))
    ELSE raw

csvRecords(text) ==
    LET lines == splitAt(text, separators(text, "\n"))
    IN [k \in 1..Len(lines) |->
           LET raw == splitAt(lines[k], separators(lines[k], ","))
           IN [i \in 1..Len(raw) |-> unquoteField(raw[i])]]

(* skipEmptyLines: true drops the records that are one empty field *)
isEmptyLine(record) == record = <<(<<>>)>>
isNotEmptyLine(record) == ~isEmptyLine(record)

(* one data record as an object keyed by the header fields *)
recordToRow(fields, record) ==
    LET n == IF Len(record) < Len(fields) THEN Len(record) ELSE Len(fields)
    IN [key \in {fields[i] : i \in 1..n} |->
           record[CHOOSE i \in 1..n :
                     /\ fields[i] = key
                     /\ \A j \in (i + 1)..n : fields[j] # key]]

(* results of Papa.parse: meta.fields and data *)
papaParse(text) ==
    LET stripped == IF text # <<>> /\ text[1] = BOM THEN Tail(text) ELSE text
        records == SelectSeq(csvRecords(stripped), isNotEmptyLine)
    IN IF records = <<>> THEN [fields |-> <<>>, data |-> <<>>]
       ELSE LET fields == [i \in 1..Len(records[1]) |->
                              normalizeHeader(records[1][i])]
            IN [fields |-> fields,
                data |-> [k \in 1..(Len(records) - 1) |->
                             recordToRow(fields, records[k + 1])]]

endsWith(s, suffix) ==
    Len(s) >= Len(suffix)
    /\ SubSeq(s, Len(s) - Len(suffix) + 1, Len(s)) = suffix

fileFailure(message) ==
    [transactions |-> <<>>,
     errors |-> <<[type |-> "VALIDATION_FAILED", message |-> message,
                   row |-> None, column |-> None]>>,
     warnings |-> <<>>]

(* { ...DEFAULT_VALIDATION_CONFIG, ...config }: config holds any of the   *)
(* three settings                                                          *)
mergeConfig(config) ==
    [key \in DOMAIN DEFAULT_VALIDATION_CONFIG |->
        IF key \in DOMAIN config THEN config[key]
        ELSE DEFAULT_VALIDATION_CONFIG[key]]

fileChecksNameFirst(file, merged) ==
    IF ~endsWith(file.name, <<".","c","s","v">>)
    THEN Some(fileFailure(<<"File must be a CSV file with .csv extension">>))
    ELSE IF file.size > merged.maxFileSizeBytes
    THEN Some(fileFailure(<<"File size exceeds maximum allowed size",
                            file.size, merged.maxFileSizeBytes>>))
    ELSE None

(* the two checks made before the file is read: None when both pass *)
fileChecks(file, merged) ==
    IF file.size > merged.maxFileSizeBytes
    THEN Some(fileFailure(<<"File size exceeds maximum allowed size",
                            file.size, merged.maxFileSizeBytes>>))
    ELSE IF ~endsWith(file.name, <<".","c","s","v">>)
    THEN Some(fileFailure(<<"File must be a CSV file with .csv extension">>))
    ELSE None

parseResults(results, merged) ==
    parseComplete(results.data, results.fields, merged)

parseChecked(file, merged) ==
    IF IsSome(fileChecks(file, merged)) THEN fileChecks(file, merged)[1]
    ELSE parseResults(papaParse(file.text), merged)

(* parseCSVFile(file, config) when Papa calls `complete`; file is          *)
(* [name, size, text]                                                      *)
parseCSVFile(file, config) == parseChecked(file, mergeConfig(config))

(* the `error` callback of Papa.parse *)
papaError == fileFailure(<<"Failed to parse CSV">>)

----------------------------------------------------------------------------
(* Export serializer: src/unnamed/part_005                                 *)

longMonthNames ==
    <<<<"J","a","n","u","a","r","y">>,
      <<"F","e","b","r","u","a","r","y">>,
      <<"M","a","r","c","h">>,
      <<"A","p","r","i","l">>,
      <<"M","a","y">>,
      <<"J","u","n","e">>,
      <<"J","u","l","y">>,
      <<"A","u","g","u","s","t">>,
      <<"S","e","p","t","e","m","b","e","r">>,
      <<"O","c","t","o","b","e","r">>,
      <<"N","o","v","e","m","b","e","r">>,
      <<"D","e","c","e","m","b","e","r">>>>

keepQuotes(value) == value

(* escapeCSVValue: quote a value holding a comma, a quote or a line break  *)
RECURSIVE doubleQuotes(_)
doubleQuotes(value) ==
    IF value = <<>> THEN <<>>
    ELSE (IF value[1] = "\"" THEN <<"\"", "\"">> ELSE <<value[1]>>)
         \o doubleQuotes(Tail(value))

escapeCSVValue(value) ==
    IF \E i \in 1..Len(value) : value[i] \in {",", "\"", "\n", "\r"}
    THEN <<"\"">> \o doubleQuotes(value) \o <<"\"">>
    ELSE value

(* formatDate(date, format) *)
formatDate(date, format) ==
    CASE format = "ISO" -> toISOString(date)
      [] format = "US" -> toUSDateString(date)
      [] format = "READABLE" ->
            longMonthNames[getMonth(date) + 1] \o <<" ">>
            \o natToString(getDate(date)) \o <<",", " ">>
            \o natToString(getFullYear(date))
      [] OTHER -> toISOString(date)

(* formatColumnHeader: headerMap[column], escaped *)
formatColumnHeader(column) ==
    escapeCSVValue(
        CASE column = "timestamp" -> COL_timestamp
          [] column = "type" -> COL_type
          [] column = "description" -> COL_description
          [] column = "status" -> COL_status
          [] column = "amountUsd" -> COL_amountUsd
          [] column = "card" -> COL_card
          [] column = "cardHolderName" -> COL_cardHolderName
          [] column = "originalAmount" -> COL_originalAmount
          [] column = "originalCurrency" -> COL_originalCurrency
          [] column = "cashbackEarned" -> COL_cashbackEarned
          [] column = "category" -> COL_category)

(* formatCellValue(transaction, column, dateFormat) *)
formatCellValue(transaction, column, dateFormat) ==
    LET value == transaction[column]
    IN IF column = "timestamp"
       THEN escapeCSVValue(formatDate(value, dateFormat))
       ELSE IF column = "amountUsd" THEN numberToString(value)
       ELSE IF column \in {"originalAmount", "cashbackEarned"}
       THEN (IF ~IsSome(value) THEN <<>> ELSE numberToString(value[1]))
       ELSE IF column \in {"originalCurrency", "category"}
       THEN (IF ~IsSome(value) THEN <<>> ELSE escapeCSVValue(value[1]))
       ELSE escapeCSVValue(value)

(* values.join(sep) *)
RECURSIVE join(_, _)
join(parts, sep) ==
    IF parts = <<>> THEN <<>>
    ELSE IF Len(parts) = 1 THEN parts[1]
    ELSE parts[1] \o sep \o join(Tail(parts), sep)

generateCSVContent(ts, config) ==
    LET header ==
            IF config.includeHeaders
            THEN <<join([i \in 1..Len(config.columns) |->
                            formatColumnHeader(config.columns[i])], <<",">>)>>
            ELSE <<>>
        rows == [k \in 1..Len(ts) |->
                    join([i \in 1..Len(config.columns) |->
                             formatCellValue(ts[k], config.columns[i],
                                             config.dateFormat)], <<",">>)]
    IN join(header \o rows, <<"\n">>)

(* defaultConfig of exportToCSV; the filename carries the export date *)
defaultExportConfig ==
    [includeHeaders |-> TRUE,
     columns |-> <<"timestamp", "type", "description", "status", "amountUsd",
                   "card", "cardHolderName", "originalAmount",
                   "originalCurrency", "cashbackEarned", "category">>,
     dateFormat |-> "ISO",
     filename |-> <<"t","r","a","n","s","a","c","t","i","o","n","s","-","2","0","2","4","-","0","1","-","0","1",".","c","s","v">>]

(* downloadCSV: the Blob is the byte-order mark followed by the content *)
downloadedFile(content, filename) ==
    [name |-> filename, size |-> Len(content) + 3,
     text |-> <<BOM>> \o content]

----------------------------------------------------------------------------
(* Filter engine: src/unnamed/part_004                                     *)

(* endOfDay = new Date(d); endOfDay.setHours(23, 59, 59, 999) *)
endOfDayUnshifted(d) == d
endOfDay(d) == d - getTickOfDay(d) + (TicksPerDay - 1)

(* if (filters.searchTerm) { ... includes(searchLower) ... } *)
passesSearchTerm(t, f) ==
    IF IsSome(f.searchTerm) /\ f.searchTerm[1] # <<>>
    THEN includes(toLowerCase(t.description), toLowerCase(f.searchTerm[1]))
    ELSE TRUE

(* if (filters.selectedCategories && length > 0) { ... includes(category) } *)
passesCategoryEmptyExcludesAll(t, f) ==
    /\ IsSome(f.selectedCategories)
    /\ categoryOf(t) \in Range(f.selectedCategories[1])
passesCategory(t, f) ==
    IF IsSome(f.selectedCategories) /\ Len(f.selectedCategories[1]) > 0
    THEN categoryOf(t) \in Range(f.selectedCategories[1])
    ELSE TRUE

(* if (filters.dateRangeStart) { if (timestamp < dateRangeStart) false } *)
passesDateRangeStart(t, f) ==
    IF IsSome(f.dateRangeStart)
    THEN ~(getTime(t.timestamp) < getTime(f.dateRangeStart[1]))
    ELSE TRUE

(* if (filters.dateRangeEnd) { if (timestamp > endOfDay) false } *)
passesDateRangeEnd(t, f) ==
    IF IsSome(f.dateRangeEnd)
    THEN ~(getTime(t.timestamp) > getTime(endOfDay(f.dateRangeEnd[1])))
    ELSE TRUE

(* the callback of transactions.filter: the four checks in order *)
transactionPasses(t, f) ==
    IF ~passesSearchTerm(t, f) THEN FALSE
    ELSE IF ~passesCategory(t, f) THEN FALSE
    ELSE IF ~passesDateRangeStart(t, f) THEN FALSE
    ELSE IF ~passesDateRangeEnd(t, f) THEN FALSE
    ELSE TRUE

RECURSIVE filterTransactions(_, _)
filterTransactions(ts, f) ==
    IF ts = <<>> THEN <<>>
    ELSE IF transactionPasses(ts[1], f)
         THEN <<ts[1]>> \o filterTransactions(Tail(ts), f)
         ELSE filterTransactions(Tail(ts), f)

applyFiltersSkippingFirstMatch(ts, f) ==
    IF filterTransactions(ts, f) = <<>> THEN <<>>
    ELSE Tail(filterTransactions(ts, f))
applyFilters(ts, f) == filterTransactions(ts, f)

calculateActiveFilterCount(f) ==
    (IF IsSome(f.searchTerm) /\ f.searchTerm[1] # <<>>
        /\ trim(f.searchTerm[1]) # <<>> THEN 1 ELSE 0)
    + (IF IsSome(f.selectedCategories) /\ Len(f.selectedCategories[1]) > 0
       THEN 1 ELSE 0)
    + (IF IsSome(f.dateRangeStart) THEN 1 ELSE 0)
    + (IF IsSome(f.dateRangeEnd) THEN 1 ELSE 0)

createEmptyFilterState ==
    [searchTerm |-> None, selectedCategories |-> None,
     dateRangeStart |-> None, dateRangeEnd |-> None, activeFilterCount |-> 0]

(* { ...currentFilters, ...updates } with the count left as it was *)
updateFilterStateKeepingCount(currentFilters, updates) ==
    [k \in DOMAIN currentFilters |->
        IF k \in DOMAIN updates THEN updates[k] ELSE currentFilters[k]]

(* { ...currentFilters, ...updates } then the count is recomputed *)
updateFilterState(currentFilters, updates) ==
    LET newFilters == [k \in DOMAIN currentFilters |->
                          IF k \in DOMAIN updates THEN updates[k]
                          ELSE currentFilters[k]]
    IN [newFilters EXCEPT
           !.activeFilterCount = calculateActiveFilterCount(newFilters)]

clearAllFilters == createEmptyFilterState

----------------------------------------------------------------------------
(* Specification of the filter engine                                      *)

Cafe == <<"C","a","f","e">>
Cab == <<"c","a","b">>

(* 23:00 on day 1, the last instant of day 1, the first instant of day 2 *)
LateOnDay1 == MakeDate(2024, 0, 0, TicksPerDay - 2)
LastOfDay1 == MakeDate(2024, 0, 0, TicksPerDay - 1)
FirstOfDay2 == MakeDate(2024, 0, 1, 0)
MidnightDay1 == MakeDate(2024, 0, 0, 0)

FilterPool ==
    {Tx(t, desc, 1, None, cat) :
        t \in {LateOnDay1, LastOfDay1, FirstOfDay2},
        desc \in {Cafe, Cab},
        cat \in {None, Some(Dining)}}

SearchTerms == {None, Some(<<>>), Some(<<"c","a">>), Some(<<"A","B">>)}
CategorySelections ==
    {None, Some(<<>>), Some(<<Dining>>), Some(<<UNCATEGORIZED_CATEGORY>>)}
StartDates == {None, Some(LastOfDay1), Some(FirstOfDay2)}
EndDates == {None, Some(MidnightDay1), Some(LateOnDay1)}

FilterUpdates ==
    {[searchTerm |-> v] : v \in SearchTerms}
    \cup {[selectedCategories |-> v] : v \in CategorySelections}
    \cup {[dateRangeStart |-> v] : v \in StartDates}
    \cup {[dateRangeEnd |-> v] : v \in EndDates}

InitFilter ==
    /\ pc = "init"
    /\ transactions \in SeqsUpTo(FilterPool, MaxFilterTx)
    /\ filters = createEmptyFilterState
    /\ categories = <<>>
    /\ periods = <<>>
    /\ filtered = <<>>
    /\ refiltered = <<>>
    /\ rawRows = <<>>
    /\ ingested = NoResult
    /\ csvFile = NoFile
    /\ reingested = NoResult
    /\ validationConfig = DEFAULT_VALIDATION_CONFIG
    /\ papaResults = NoPapaResults
    /\ NothingAggregated
    /\ NoDashboard

UpdateFilterState ==
    /\ pc = "init"
    /\ \E u \in FilterUpdates : filters' = updateFilterState(filters, u)
    /\ pc' = "init"
    /\ filtered' = <<>>
    /\ refiltered' = <<>>
    /\ UNCHANGED <<validationConfig, papaResults, aggregateVars, dashboardVars,
                   transactions, categories, periods, rawRows, ingested,
                   csvFile, reingested>>

ClearAllFilters ==
    /\ filters' = clearAllFilters
    /\ pc' = "init"
    /\ filtered' = <<>>
    /\ refiltered' = <<>>
    /\ UNCHANGED <<validationConfig, papaResults, aggregateVars, dashboardVars,
                   transactions, categories, periods, rawRows, ingested,
                   csvFile, reingested>>

ApplyFilters ==
    /\ pc = "init"
    /\ filtered' = applyFilters(transactions, filters)
    /\ pc' = "filtered"
    /\ UNCHANGED <<validationConfig, papaResults, aggregateVars, dashboardVars,
                   transactions, filters, categories, periods, refiltered,
                   rawRows, ingested,
                   csvFile, reingested>>

(* the filter applied once more, to its own result *)
ReapplyFilters ==
    /\ pc = "filtered"
    /\ refiltered' = applyFilters(filtered, filters)
    /\ pc' = "refiltered"
    /\ UNCHANGED <<validationConfig, papaResults, aggregateVars, dashboardVars,
                   transactions, filters, categories, periods, filtered,
                   rawRows, ingested,
                   csvFile, reingested>>

NextFilter ==
    UpdateFilterState \/ ClearAllFilters \/ ApplyFilters \/ ReapplyFilters

SpecFilter == InitFilter /\ [][NextFilter]_vars

(* --- the contract of section 4.4, stated without the code's helpers ---- *)

SameLetter(x, y) ==
    \/ x = y
    \/ \E k \in 1..26 : {x, y} = {upperChars[k], lowerChars[k]}

ContainsIgnoringCase(s, sub) ==
    \E k \in 0..(Len(s) - Len(sub)) :
        \A i \in 1..Len(sub) : SameLetter(s[k + i], sub[i])

EndOfCalendarDate(d) ==
    MakeDate(getFullYear(d), getMonth(d), getDate(d) - 1, TicksPerDay - 1)

Satisfies(t, f) ==
    /\ IsSome(f.searchTerm) => ContainsIgnoringCase(t.description,
                                                    f.searchTerm[1])
    /\ (IsSome(f.selectedCategories) /\ f.selectedCategories[1] # <<>>)
       => \E i \in 1..Len(f.selectedCategories[1]) :
              f.selectedCategories[1][i] = categoryOf(t)
    /\ IsSome(f.dateRangeStart) => t.timestamp >= f.dateRangeStart[1]
    /\ IsSome(f.dateRangeEnd)
       => t.timestamp <= EndOfCalendarDate(f.dateRangeEnd[1])

KthSmallest(I, k) == CHOOSE i \in I : Cardinality({j \in I : j <= i}) = k

(* s is the subsequence of ts taken at the positions I, in order *)
IsSubsequenceAt(s, ts, I) ==
    /\ Len(s) = Cardinality(I)
    /\ \A k \in 1..Len(s) : s[k] = ts[KthSmallest(I, k)]

(* C6: applyFilters is idempotent: filtering the result again with the     *)
(* same specification gives the same elements in the same order.           *)
C6_ApplyFiltersIdempotent ==
    pc = "refiltered" => refiltered = filtered

(* some but not all transactions pass two active conditions, then the      *)
(* result is filtered again                                                *)
C6_Witness ==
    /\ pc = "refiltered"
    /\ filters.activeFilterCount >= 2
    /\ Len(filtered) >= 1
    /\ Len(filtered) < Len(transactions)

(* C7: applyFilters with the empty specification of createEmptyFilterState *)
(* / clearAllFilters returns every input transaction in the input order.   *)
C7_EmptySpecIsIdentity ==
    (pc = "filtered" /\ filters = createEmptyFilterState) =>
        filtered = transactions

C7_Witness ==
    /\ pc = "filtered"
    /\ filters = clearAllFilters
    /\ Len(transactions) = MaxFilterTx
    /\ transactions[1] # transactions[2]
    /\ filtered = transactions

----------------------------------------------------------------------------
(* Specification of ingestion, export and ingestion of the exported file   *)

ALL_COLUMNS ==
    <<COL_timestamp, COL_type, COL_description, COL_status, COL_amountUsd,
      COL_card, COL_cardHolderName, COL_originalAmount, COL_originalCurrency,
      COL_cashbackEarned, COL_category>>

(* a data row as Papa hands it over: every column present *)
RawRow(ts, desc, amount, holder, origAmount, origCurrency, cashback, cat) ==
    [key \in Range(ALL_COLUMNS) |->
        CASE key = COL_timestamp -> ts
          [] key = COL_type -> Purchase
          [] key = COL_description -> desc
          [] key = COL_status -> Completed
          [] key = COL_amountUsd -> amount
          [] key = COL_card -> Card1234
          [] key = COL_cardHolderName -> holder
          [] key = COL_originalAmount -> origAmount
          [] key = COL_originalCurrency -> origCurrency
          [] key = COL_cashbackEarned -> cashback
          [] key = COL_category -> cat]

RowPool ==
    { RawRow(<<"2","0","2","4","-","0","1","-","0","2">>, CoffeeShop, <<"-","4",".","5","0">>, JaneDoe,
             <<>>, <<>>, <<"0",".","0","5">>, Dining),
      RawRow(<<"2","0","2","4","-","0","2","-","0","1","T","0","1","Z">>, <<" ","a",",","\"","b","\"","\n","c"," ">>, <<"$","1",",","2","3","4",".","5">>, <<"D","o","e",","," ","J">>,
             <<"0">>, <<"E","U","R">>, <<>>, <<" ">>),
      RawRow(<<"2","/","1","/","2","0","2","5">>, <<"\"">>, <<"1","5","0","0","0">>, JaneDoe,
             <<>>, <<>>, <<"x">>, <<" ","D","i","n","i","n","g"," ">>),
      RawRow(<<"2","-","1","-","2","0","2","4">>, <<"x","\r","y">>, <<"0">>, JaneDoe,
             <<"7",".","2","5">>, <<>>, <<"0">>, UNCATEGORIZED_CATEGORY),
      RawRow(<<"a","b","c">>, CoffeeShop, <<"-","4",".","5","0">>, JaneDoe,
             <<>>, <<>>, <<>>, Dining),
      RawRow(<<"2","0","2","4","-","0","1","-","0","2">>, <<" ">>, <<"-","4",".","5","0">>, JaneDoe,
             <<>>, <<>>, <<>>, Dining) }

InitCsv ==
    /\ pc = "init"
    /\ rawRows \in SeqsUpTo(RowPool, MaxCsvRows)
    /\ transactions = <<>>
    /\ filters = EmptyFilterState
    /\ categories = <<>>
    /\ periods = <<>>
    /\ filtered = <<>>
    /\ refiltered = <<>>
    /\ ingested = NoResult
    /\ csvFile = NoFile
    /\ reingested = NoResult
    /\ validationConfig = DEFAULT_VALIDATION_CONFIG
    /\ papaResults = NoPapaResults
    /\ NothingAggregated
    /\ NoDashboard

(* the upload is parsed and its transactions become the collection *)
Ingest ==
    /\ pc = "init"
    /\ ingested' = parseComplete(rawRows, ALL_COLUMNS,
                                 DEFAULT_VALIDATION_CONFIG)
    /\ transactions' = ingested'.transactions
    /\ pc' = "ingested"
    /\ UNCHANGED <<validationConfig, papaResults, aggregateVars, dashboardVars,
                   filters, categories, periods, filtered, refiltered,
                   rawRows, csvFile, reingested>>

(* exportToCSV with the default configuration *)
ExportToCSV ==
    /\ pc = "ingested"
    /\ Len(transactions) > 0
    /\ csvFile' = downloadedFile(
                      generateCSVContent(transactions, defaultExportConfig),
                      defaultExportConfig.filename)
    /\ pc' = "exported"
    /\ UNCHANGED <<validationConfig, papaResults, aggregateVars, dashboardVars,
                   transactions, filters, categories, periods, filtered,
                   refiltered, rawRows, ingested, reingested>>

(* the exported file is uploaded again *)
Reingest ==
    /\ pc = "exported"
    /\ reingested' = parseCSVFile(csvFile, DEFAULT_VALIDATION_CONFIG)
    /\ pc' = "reingested"
    /\ UNCHANGED <<validationConfig, papaResults, aggregateVars, dashboardVars,
                   transactions, filters, categories, periods, filtered,
                   refiltered, rawRows, ingested, csvFile>>

NextCsv == Ingest \/ ExportToCSV \/ Reingest

SpecCsv == InitCsv /\ [][NextCsv]_vars

HasSpecialCharacters(s) ==
    /\ \E i \in 1..Len(s) : s[i] = ","
    /\ \E i \in 1..Len(s) : s[i] = "\""
    /\ \E i \in 1..Len(s) : s[i] = "\n"

----------------------------------------------------------------------------
(* Summary statistics: src/src/lib/dataAggregation.ts                      *)

RECURSIVE SumCashback(_)
SumCashback(ts) ==
    IF ts = <<>> THEN 0
    ELSE cashbackOf(ts[1]) + SumCashback(Tail(ts))

(* the statistics computed over no transaction without the early return: *)
(* the first and the last element of an empty array are undefined         *)
calculateSummaryStatisticsWithoutEmptyCheck(ts) ==
    [totalTransactions |-> Len(ts),
     dateRangeStart |->
         IF ts = <<>> THEN <<"undefined">>
         ELSE Some(sortDates([i \in 1..Len(ts) |-> ts[i].timestamp])[1]),
     dateRangeEnd |->
         IF ts = <<>> THEN <<"undefined">>
         ELSE Some(sortDates([i \in 1..Len(ts) |-> ts[i].timestamp])[Len(ts)]),
     totalSpending |-> SumAmountUsd(ts),
     totalCashback |-> SumCashback(ts),
     netSpending |-> SumAmountUsd(ts) - SumCashback(ts),
     uniqueCategories |->
         Cardinality({categoryOf(ts[i]) : i \in 1..Len(ts)})]

(* calculateSummaryStatistics(transactions); null dates are None *)
calculateSummaryStatistics(ts) ==
    IF Len(ts) = 0
    THEN [totalTransactions |-> 0, dateRangeStart |-> None,
          dateRangeEnd |-> None, totalSpending |-> 0, totalCashback |-> 0,
          netSpending |-> 0, uniqueCategories |-> 0]
    ELSE [totalTransactions |-> Len(ts),
          dateRangeStart |->
              Some(sortDates([i \in 1..Len(ts) |-> ts[i].timestamp])[1]),
          dateRangeEnd |->
              Some(sortDates([i \in 1..Len(ts) |-> ts[i].timestamp])[Len(ts)]),
          totalSpending |-> SumAmountUsd(ts),
          totalCashback |-> SumCashback(ts),
          netSpending |-> SumAmountUsd(ts) - SumCashback(ts),
          uniqueCategories |->
              Cardinality({categoryOf(ts[i]) : i \in 1..Len(ts)})]

----------------------------------------------------------------------------
(* Specification of the upload of one file: parseCSVFile(file, config)     *)

(* header lines of the uploaded files: the export spelling, other accepted *)
(* spellings without the optional columns, one and two required columns    *)
(* missing, and no header at all                                           *)
AliasHeaders ==
    << <<" ","D","a","t","e"," ">>, <<"T","y","p","e">>,
       <<"M","e","r","c","h","a","n","t">>, <<"S","t","a","t","u","s">>,
       <<"A","m","o","u","n","t">>,
       <<"C","a","r","d"," ","N","u","m","b","e","r">>,
       <<"C","a","r","d","h","o","l","d","e","r">>,
       <<"R","e","w","a","r","d","s">> >>

HeadersWithoutCard ==
    SelectSeq(ALL_COLUMNS, LAMBDA c : c # COL_card)

HeadersWithoutStatusAndAmount ==
    SelectSeq(ALL_COLUMNS, LAMBDA c : c \notin {COL_status, COL_amountUsd})
    \o << <<"n","o","t","e","s">> >>

HeaderPool ==
    {ALL_COLUMNS, AliasHeaders, HeadersWithoutCard,
     HeadersWithoutStatusAndAmount, <<>>}

UploadRowPool ==
    { RawRow(<<"2","0","2","4","-","0","1","-","0","2">>, CoffeeShop,
             <<"-","4",".","5","0">>, JaneDoe,
             <<>>, <<>>, <<"0",".","0","5">>, Dining),
      RawRow(<<"2","0","2","4","-","0","2","-","0","1","T","0","1","Z">>,
             <<" ","a",",","\"","b","\"","\n","c"," ">>,
             <<"$","1",",","2","3","4",".","5">>, <<"D","o","e",","," ","J">>,
             <<"0">>, <<"E","U","R">>, <<>>, <<" ">>),
      RawRow(<<"2","/","1","/","2","0","2","5">>, CoffeeShop,
             <<"1","5","0","0","0">>, JaneDoe,
             <<>>, <<>>, <<"x">>, <<" ","D","i","n","i","n","g"," ">>),
      RawRow(<<"a","b","c">>, CoffeeShop, <<"-","4",".","5","0">>, JaneDoe,
             <<>>, <<>>, <<>>, Dining),
      RawRow(<<"2","0","2","4","-","0","1","-","0","2">>, CoffeeShop,
             <<"1","2",".","0","0">>, JaneDoe,
             <<>>, <<>>, <<"-","0",".","0","5">>, Dining) }

(* the cell of a row under a header: the row's value for the column the    *)
(* header stands for, empty for a column the row does not have             *)
cellOf(row, header) ==
    IF normalizeHeader(header) \in DOMAIN row
    THEN row[normalizeHeader(header)] ELSE <<>>

(* the text of a file with the given header line and data rows *)
uploadText(headers, rows) ==
    join(<<join([i \in 1..Len(headers) |-> escapeCSVValue(headers[i])],
                <<",">>)>>
         \o [k \in 1..Len(rows) |->
                join([i \in 1..Len(headers) |->
                         escapeCSVValue(cellOf(rows[k], headers[i]))],
                     <<",">>)],
         <<"\n">>)

FileNames == {<<"a",".","c","s","v">>, <<"a",".","t","x","t">>}

(* the caller's configuration: any of the settings may be left out *)
ConfigPool ==
    {<<>>, [strictMode |-> TRUE], [maxTransactions |-> 1],
     [strictMode |-> TRUE, maxTransactions |-> 1]}

UploadFiles ==
    {[name |-> n, size |-> IF big THEN 10 * 1024 * 1024 + 1 ELSE Len(t),
      text |-> t] :
        n \in FileNames, big \in BOOLEAN,
        t \in {uploadText(h, rows) :
                  h \in HeaderPool,
                  rows \in SeqsUpTo(UploadRowPool, MaxCsvRows)}}

InitUpload ==
    /\ pc = "init"
    /\ csvFile \in UploadFiles
    /\ validationConfig \in ConfigPool
    /\ transactions = <<>>
    /\ filters = EmptyFilterState
    /\ categories = <<>>
    /\ periods = <<>>
    /\ filtered = <<>>
    /\ refiltered = <<>>
    /\ rawRows = <<>>
    /\ ingested = NoResult
    /\ reingested = NoResult
    /\ papaResults = NoPapaResults
    /\ NothingAggregated
    /\ NoDashboard

(* parseCSVFile up to the call of Papa.parse: a file that fails the size   *)
(* or the name check is answered at once, any other is handed to Papa      *)
ParseCSVFile ==
    /\ pc = "init"
    /\ IF IsSome(fileChecks(csvFile, mergeConfig(validationConfig)))
       THEN /\ ingested' = fileChecks(csvFile,
                                      mergeConfig(validationConfig))[1]
            /\ pc' = "rejected"
            /\ UNCHANGED papaResults
       ELSE /\ papaResults' = papaParse(csvFile.text)
            /\ pc' = "parsing"
            /\ UNCHANGED ingested
    /\ UNCHANGED <<aggregateVars, dashboardVars,
                   validationConfig, transactions, filters, categories,
                   periods, filtered, refiltered, rawRows, csvFile,
                   reingested>>

(* the `complete` callback resolves the promise *)
PapaComplete ==
    /\ pc = "parsing"
    /\ ingested' = parseResults(papaResults, mergeConfig(validationConfig))
    /\ pc' = "parsed"
    /\ UNCHANGED <<validationConfig, papaResults, aggregateVars, dashboardVars,
                   transactions, filters, categories, periods, filtered,
                   refiltered, rawRows, csvFile, reingested>>

(* the `error` callback resolves the promise: the file could not be read *)
PapaError ==
    /\ pc = "parsing"
    /\ ingested' = papaError
    /\ pc' = "readError"
    /\ UNCHANGED <<validationConfig, papaResults, aggregateVars, dashboardVars,
                   transactions, filters, categories, periods, filtered,
                   refiltered, rawRows, csvFile, reingested>>

NextUpload == ParseCSVFile \/ PapaComplete \/ PapaError

SpecUpload == InitUpload /\ [][NextUpload]_vars

----------------------------------------------------------------------------
(* Properties of the upload                                                *)

(* what Papa hands to the `complete` callback, as a one-element set to     *)
(* quantify over                                                           *)
Uploaded == {papaResults}
MergedConfig == mergeConfig(validationConfig)

(* the file passes the size check and the name check *)
FileAccepted ==
    /\ csvFile.size <= MergedConfig.maxFileSizeBytes
    /\ Len(csvFile.name) >= 4
    /\ SubSeq(csvFile.name, Len(csvFile.name) - 3, Len(csvFile.name))
           = <<".","c","s","v">>

MissingRequiredColumns(fields) ==
    {c \in Range(REQUIRED_CSV_COLUMNS) : c \notin Range(fields)}

(* the `complete` callback got as far as parsing the rows *)
RowsParsed(up) ==
    /\ pc = "parsed"
    /\ FileAccepted
    /\ Len(up.data) > 0
    /\ MissingRequiredColumns(up.fields) = {}

BlankText(s) == \A i \in 1..Len(s) : s[i] \in whitespace

(* the row has no category column or only white space in it *)
CategoryBlank(row) ==
    COL_category \notin DOMAIN row \/ BlankText(row[COL_category])

(* the results of the row parser for the rows, numbered from 2 *)
RowResults(data) ==
    [k \in 1..Len(data) |-> parseTransactionRow(data[k], k + 1)]

ErrorRows(result) ==
    {result.errors[j].row[1] : j \in 1..Len(result.errors)}

ExactlyOneOfTransactionAndError(r) ==
    /\ IsSome(r.transaction) # IsSome(r.error)
    /\ IsSome(r.warning) => (IsSome(r.transaction) /\ ~IsSome(r.error))

(* C11: for every raw row and row number, parseTransactionRow returns      *)
(* exactly one of a transaction and an error, and a warning only together  *)
(* with a transaction, never with an error.                                *)
C11_TransactionXorError ==
    \A up \in Uploaded : \A k \in 1..Len(up.data) :
        \A r \in {parseTransactionRow(up.data[k], n) : n \in {0, k + 1}} :
            ExactlyOneOfTransactionAndError(r)

(* a parsed file with a failing row and a row that succeeds with a warning *)
C11_Witness ==
    \E up \in Uploaded : \E rs \in {RowResults(up.data)} :
        /\ RowsParsed(up)
        /\ \E k \in 1..Len(rs) : IsSome(rs[k].error)
        /\ \E k \in 1..Len(rs) : IsSome(rs[k].warning)

CategoryOfRowRight(row, rowNumber, r) ==
    IsSome(r.transaction) =>
        IF CategoryBlank(row)
        THEN /\ r.transaction[1].category = Some(UNCATEGORIZED_CATEGORY)
             /\ IsSome(r.warning)
             /\ r.warning[1].type = "MISSING_CATEGORY"
             /\ r.warning[1].row = rowNumber
        ELSE /\ r.transaction[1].category = Some(trim(row[COL_category]))
             /\ r.transaction[1].category[1] # <<>>
             /\ IsSome(r.warning) => r.warning[1].type # "MISSING_CATEGORY"

MissingCategoryWarningsOf(result, rowNumber) ==
    {j \in 1..Len(result.warnings) :
        /\ result.warnings[j].type = "MISSING_CATEGORY"
        /\ result.warnings[j].row = rowNumber}

(* C12: every transaction produced by ingestion has a non-empty category;  *)
(* a row whose category is absent or blank yields category Uncategorized   *)
(* with exactly one MISSING_CATEGORY warning carrying its row number, and  *)
(* a row with a non-blank category keeps its trimmed category.             *)
C12_CategoryNeverEmpty ==
    \A up \in Uploaded : \A rs \in {RowResults(up.data)} :
        /\ \A k \in 1..Len(rs) :
              CategoryOfRowRight(up.data[k], k + 1, rs[k])
        /\ pc = "parsed" =>
              \A i \in 1..Len(ingested.transactions) :
                 /\ IsSome(ingested.transactions[i].category)
                 /\ ingested.transactions[i].category[1] # <<>>
        /\ (RowsParsed(up) /\ ~MergedConfig.strictMode) =>
              \A k \in 1..Len(up.data) :
                 Cardinality(MissingCategoryWarningsOf(ingested, k + 1))
                    = IF /\ CategoryBlank(up.data[k])
                         /\ k + 1 \notin ErrorRows(ingested)
                      THEN 1 ELSE 0

(* a file with a blank category and a category to trim, both transactions  *)
(* returned                                                                *)
C12_Witness ==
    \E up \in Uploaded :
        /\ RowsParsed(up) /\ ~MergedConfig.strictMode
        /\ Len(ingested.transactions) = 2
        /\ ingested.transactions[1].category = Some(UNCATEGORIZED_CATEGORY)
        /\ ingested.transactions[2].category = Some(Dining)
        /\ COL_category \in DOMAIN up.data[1]
        /\ up.data[2][COL_category] # Dining
        /\ Cardinality(MissingCategoryWarningsOf(ingested, 2)) = 1

(* C13: parseCSVFile always resolves with a result, and a result without   *)
(* transactions has at least one error; a header-only file is reported as  *)
(* EMPTY_FILE.                                                             *)
C13_NeverEmptyHanded ==
    pc \in {"rejected", "parsed", "readError"} =>
        /\ DOMAIN ingested = {"transactions", "errors", "warnings"}
        /\ ingested.transactions = <<>> => ingested.errors # <<>>
        /\ \A up \in Uploaded :
              (pc = "parsed" /\ Len(up.data) = 0) =>
                 /\ Len(ingested.errors) = 1
                 /\ ingested.errors[1].type = "EMPTY_FILE"

(* an accepted file that holds the full header line and nothing else *)
C13_Witness ==
    \E up \in Uploaded :
        /\ pc = "parsed"
        /\ FileAccepted
        /\ up.fields = ALL_COLUMNS
        /\ Len(up.data) = 0
        /\ ingested.transactions = <<>>

MissingColumnErrorsFor(result, c) ==
    {j \in 1..Len(result.errors) :
        /\ result.errors[j].type = "MISSING_COLUMN"
        /\ result.errors[j].column = Some(c)}

(* C14: a file with at least one data row that lacks required columns      *)
(* after header normalisation yields no transactions, no warnings and      *)
(* exactly one MISSING_COLUMN error per missing required column, naming    *)
(* it; no row is parsed, so no row-level error appears.                    *)
C14_MissingColumnsAbort ==
    \A up \in Uploaded : \A missing \in {MissingRequiredColumns(up.fields)} :
        (pc = "parsed" /\ Len(up.data) >= 1 /\ missing # {}) =>
            /\ ingested.transactions = <<>>
            /\ ingested.warnings = <<>>
            /\ Len(ingested.errors) = Cardinality(missing)
            /\ \A c \in missing :
                  Cardinality(MissingColumnErrorsFor(ingested, c)) = 1
            /\ \A j \in 1..Len(ingested.errors) :
                  /\ ingested.errors[j].type = "MISSING_COLUMN"
                  /\ ingested.errors[j].row = None

(* two required columns are missing and the file holds a row with an       *)
(* unreadable date, which is not reported                                  *)
C14_Witness ==
    \E up \in Uploaded :
        /\ pc = "parsed"
        /\ Cardinality(MissingRequiredColumns(up.fields)) = 2
        /\ \E k \in 1..Len(up.data) :
              up.data[k][COL_timestamp] = <<"a","b","c">>
        /\ Len(ingested.errors) = 2

(* C15: in default mode, for a file with all required columns and n data   *)
(* rows, a failing row excludes only itself: the row at 0-based index i    *)
(* yields one transaction or one error with row number i + 2, the          *)
(* transactions and the row errors number n together, and the              *)
(* transactions keep the order of their rows.                              *)
C15_RowFailuresExcludeOnlyThatRow ==
    \A up \in Uploaded :
        (RowsParsed(up) /\ ~MergedConfig.strictMode) =>
            \A rs \in {RowResults(up.data)} :
            \A ok \in {{k \in 1..Len(up.data) :
                           k + 1 \notin ErrorRows(ingested)}} :
                /\ Len(ingested.transactions) + Len(ingested.errors)
                      = Len(up.data)
                /\ \A j \in 1..Len(ingested.errors) :
                      /\ IsSome(ingested.errors[j].row)
                      /\ ingested.errors[j].row[1] \in 2..(Len(up.data) + 1)
                      /\ Some(ingested.errors[j])
                            = rs[ingested.errors[j].row[1] - 1].error
                /\ \A i, j \in 1..Len(ingested.errors) :
                      i < j => ingested.errors[i].row[1]
                                  < ingested.errors[j].row[1]
                /\ Len(ingested.transactions) = Cardinality(ok)
                /\ \A j \in 1..Len(ingested.transactions) :
                      Some(ingested.transactions[j])
                         = rs[KthSmallest(ok, j)].transaction

(* the first row fails with row number 2 and the second row is still       *)
(* returned as a transaction                                               *)
C15_Witness ==
    \E up \in Uploaded :
        /\ RowsParsed(up) /\ ~MergedConfig.strictMode
        /\ Len(up.data) = 2
        /\ Len(ingested.errors) = 1
        /\ ingested.errors[1].row = Some(2)
        /\ Len(ingested.transactions) = 1

(* an error of the file rather than of a row carries no row number *)
FileLevel(e) == e.row = None

(* C16: the file-level checks run in the order size, .csv name, zero data  *)
(* rows, required columns, and the first that fails ends processing; a     *)
(* result with a file-level error has no transactions, no warnings and no  *)
(* row-level errors; an oversized file yields a single VALIDATION_FAILED   *)
(* error and is not parsed.                                                *)
C16_FileChecksShortCircuit ==
    pc \in {"rejected", "parsed", "readError"} =>
        /\ (\E j \in 1..Len(ingested.errors) : FileLevel(ingested.errors[j]))
              => /\ ingested.transactions = <<>>
                 /\ ingested.warnings = <<>>
                 /\ \A j \in 1..Len(ingested.errors) :
                       /\ FileLevel(ingested.errors[j])
                       /\ ingested.errors[j].type \in
                             {"VALIDATION_FAILED", "EMPTY_FILE",
                              "MISSING_COLUMN"}
        /\ csvFile.size > MergedConfig.maxFileSizeBytes =>
              /\ pc = "rejected"
              /\ papaResults = NoPapaResults
              /\ Len(ingested.errors) = 1
              /\ ingested.errors[1].type = "VALIDATION_FAILED"
              /\ ingested.errors[1].message[1]
                    = "File size exceeds maximum allowed size"
        /\ (csvFile.size <= MergedConfig.maxFileSizeBytes /\ ~FileAccepted) =>
              /\ pc = "rejected"
              /\ papaResults = NoPapaResults
              /\ Len(ingested.errors) = 1
              /\ ingested.errors[1].type = "VALIDATION_FAILED"
              /\ ingested.errors[1].message
                    = <<"File must be a CSV file with .csv extension">>
        /\ \A up \in Uploaded :
              /\ (pc = "parsed" /\ Len(up.data) = 0) =>
                    /\ Len(ingested.errors) = 1
                    /\ ingested.errors[1].type = "EMPTY_FILE"
              /\ (pc = "parsed" /\ Len(up.data) > 0
                    /\ MissingRequiredColumns(up.fields) # {}) =>
                    \A j \in 1..Len(ingested.errors) :
                       ingested.errors[j].type = "MISSING_COLUMN"

(* a file that is too large and also not named .csv: only the size is      *)
(* reported                                                                *)
C16_Witness ==
    /\ pc = "rejected"
    /\ csvFile.size > MergedConfig.maxFileSizeBytes
    /\ csvFile.name = <<"a",".","t","x","t">>
    /\ Len(csvFile.text) > 0
    /\ Len(ingested.errors) = 1

RECURSIVE Flatten(_)
Flatten(ss) == IF ss = <<>> THEN <<>> ELSE ss[1] \o Flatten(Tail(ss))

(* what the loop over the rows accumulates *)
AccumulatedTransactions(rs) ==
    Flatten([k \in 1..Len(rs) |-> rs[k].transaction])
AccumulatedErrors(rs) == Flatten([k \in 1..Len(rs) |-> rs[k].error])
RowWarnings(rs) == Flatten([k \in 1..Len(rs) |-> rs[k].warning])

(* the row warnings, followed by the warning about the transaction count   *)
(* when the limit is exceeded                                              *)
AccumulatedWarnings(rs, limit) ==
    RowWarnings(rs)
    \o (IF Len(AccumulatedTransactions(rs)) > limit
        THEN <<[type |-> "LARGE_TRANSACTION",
                message |-> <<"Transaction count exceeds maximum",
                              Len(AccumulatedTransactions(rs)), limit>>,
                row |-> 0]>>
        ELSE <<>>)

(* C17: with strictMode enabled and at least one accumulated warning the   *)
(* result has no transactions, no warnings, and the accumulated errors     *)
(* followed by one VALIDATION_FAILED error per warning with the same       *)
(* message and row; with strictMode disabled the transactions are          *)
(* returned alongside the warnings.                                        *)
C17_StrictModePromotesWarnings ==
    \A up \in Uploaded : RowsParsed(up) =>
        \A rs \in {RowResults(up.data)} :
        \A errs \in {AccumulatedErrors(rs)} :
        \A ws \in {AccumulatedWarnings(rs, MergedConfig.maxTransactions)} :
            /\ (MergedConfig.strictMode /\ Len(ws) > 0) =>
                  /\ ingested.transactions = <<>>
                  /\ ingested.warnings = <<>>
                  /\ Len(ingested.errors) = Len(errs) + Len(ws)
                  /\ SubSeq(ingested.errors, 1, Len(errs)) = errs
                  /\ \A i \in 1..Len(ws) :
                        /\ ingested.errors[Len(errs) + i].type
                              = "VALIDATION_FAILED"
                        /\ ingested.errors[Len(errs) + i].message
                              = ws[i].message
                        /\ ingested.errors[Len(errs) + i].row
                              = Some(ws[i].row)
            /\ ~MergedConfig.strictMode =>
                  /\ ingested.transactions = AccumulatedTransactions(rs)
                  /\ ingested.warnings = ws
                  /\ ingested.errors = errs

(* strict mode, a failing row and a row with a warning: two errors *)
C17_Witness ==
    \E up \in Uploaded : \E rs \in {RowResults(up.data)} :
        /\ RowsParsed(up)
        /\ MergedConfig.strictMode
        /\ Len(AccumulatedErrors(rs)) = 1
        /\ Len(RowWarnings(rs)) = 1
        /\ Len(ingested.errors) = 2
        /\ ingested.transactions = <<>>

(* C18 as claimed: with strictMode enabled the result has no transactions  *)
(* or no errors.                                                           *)
C18_StrictAllOrNothing ==
    (pc = "parsed" /\ MergedConfig.strictMode) =>
        ingested.transactions = <<>> \/ ingested.errors = <<>>

(* C18 amended: with strictMode enabled the result has no warnings, and    *)
(* it has transactions only when no warning was accumulated; it then       *)
(* holds the transactions of the rows that succeeded together with the     *)
(* errors of the rows that failed.                                         *)
C18_StrictNothingOnWarnings ==
    \A up \in Uploaded : (RowsParsed(up) /\ MergedConfig.strictMode) =>
        \A rs \in {RowResults(up.data)} :
            /\ ingested.warnings = <<>>
            /\ ingested.transactions # <<>> =>
                  /\ AccumulatedWarnings(rs, MergedConfig.maxTransactions)
                        = <<>>
                  /\ ingested.transactions = AccumulatedTransactions(rs)
                  /\ ingested.errors = AccumulatedErrors(rs)

(* strict mode, no warning, one row fails: its error comes with the        *)
(* transaction of the other row                                            *)
C18_Witness ==
    \E up \in Uploaded :
        /\ RowsParsed(up)
        /\ MergedConfig.strictMode
        /\ Len(ingested.transactions) = 1
        /\ Len(ingested.errors) = 1

(* C19: in default mode a transaction count above maxTransactions adds     *)
(* exactly one warning after the row warnings and rejects nothing: the     *)
(* transactions and the errors are what the rows give whatever the limit;  *)
(* at or below the limit no such warning is added.                         *)
C19_CountLimitOnlyWarns ==
    \A up \in Uploaded : (RowsParsed(up) /\ ~MergedConfig.strictMode) =>
        \A rs \in {RowResults(up.data)} : \A rw \in {RowWarnings(rs)} :
            /\ ingested.transactions = AccumulatedTransactions(rs)
            /\ ingested.errors = AccumulatedErrors(rs)
            /\ IF Len(ingested.transactions) > MergedConfig.maxTransactions
               THEN /\ Len(ingested.warnings) = Len(rw) + 1
                    /\ SubSeq(ingested.warnings, 1, Len(rw)) = rw
                    /\ ingested.warnings[Len(rw) + 1].type
                          = "LARGE_TRANSACTION"
                    /\ ingested.warnings[Len(rw) + 1].row = 0
               ELSE ingested.warnings = rw

(* two transactions against a limit of one, one of them with a row warning *)
C19_Witness ==
    \E up \in Uploaded : \E rs \in {RowResults(up.data)} :
        /\ RowsParsed(up) /\ ~MergedConfig.strictMode
        /\ MergedConfig.maxTransactions = 1
        /\ Len(ingested.transactions) = 2
        /\ Len(RowWarnings(rs)) = 1
        /\ Len(ingested.warnings) = 2

(* C20: every transaction produced by ingestion has cashbackEarned absent  *)
(* or >= 0, and so the totalCashback of calculateSummaryStatistics over    *)
(* an ingested collection is >= 0.                                         *)
C20_CashbackNeverNegative ==
    pc = "parsed" =>
        /\ \A i \in 1..Len(ingested.transactions) :
              \/ ~IsSome(ingested.transactions[i].cashbackEarned)
              \/ ingested.transactions[i].cashbackEarned[1] >= 0
        /\ calculateSummaryStatistics(ingested.transactions).totalCashback
              >= 0

----------------------------------------------------------------------------
(* Specification of the five aggregators over one collection              *)

(* monthOverMonthChange = ((spending - previous) / previous) * 100, as a  *)
(* fraction; 0 for the first period and after a period that spent 0       *)
monthOverMonthChange(ps, index) ==
    IF index > 1 /\ ps[index - 1].totalSpending # 0
    THEN [num |-> (ps[index].totalSpending - ps[index - 1].totalSpending)
                  * 100,
          den |-> ps[index - 1].totalSpending]
    ELSE [num |-> 0, den |-> 1]

trendsOf(ps) ==
    IF Len(ps) = 0 THEN <<>>
    ELSE [index \in 1..Len(ps) |->
             [k \in DOMAIN ps[index] \cup {"monthOverMonthChange"} |->
                 IF k = "monthOverMonthChange"
                 THEN monthOverMonthChange(ps, index)
                 ELSE ps[index][k]]]

calculateSpendingTrends(ts) == trendsOf(calculateTimePeriods(ts))

(* one purchase per month and category: 1.00 in January, 2.00 in February *)
AggregatePool ==
    {Tx(MakeDate(2024, m, 0, 0), CoffeeShop, m + 1, None, cat) :
        m \in {0, 1}, cat \in {None, Some(Dining)}}

Aggregators == {"summary", "categories", "periods", "net", "trends"}

(* pc is the set of the aggregators that have run *)
InitAggregate ==
    /\ pc = {}
    /\ transactions \in SeqsUpTo(AggregatePool, MaxTx)
    /\ filters = EmptyFilterState
    /\ categories = <<>>
    /\ periods = <<>>
    /\ filtered = <<>>
    /\ refiltered = <<>>
    /\ rawRows = <<>>
    /\ ingested = NoResult
    /\ csvFile = NoFile
    /\ reingested = NoResult
    /\ validationConfig = DEFAULT_VALIDATION_CONFIG
    /\ papaResults = NoPapaResults
    /\ NothingAggregated
    /\ NoDashboard

inputVars ==
    <<transactions, filters, filtered, refiltered, rawRows, ingested,
      csvFile, reingested, validationConfig, papaResults, rowResult>>

SummaryOfAll ==
    /\ "summary" \notin pc
    /\ summaryStats' = calculateSummaryStatistics(transactions)
    /\ pc' = pc \cup {"summary"}
    /\ UNCHANGED <<inputVars, dashboardVars, categories, periods,
                   netCategories, trends>>

CategoriesOfAll ==
    /\ "categories" \notin pc
    /\ categories' = calculateCategories(transactions)
    /\ pc' = pc \cup {"categories"}
    /\ UNCHANGED <<inputVars, dashboardVars, summaryStats, periods,
                   netCategories, trends>>

PeriodsOfAll ==
    /\ "periods" \notin pc
    /\ periods' = calculateTimePeriods(transactions)
    /\ pc' = pc \cup {"periods"}
    /\ UNCHANGED <<inputVars, dashboardVars, summaryStats, categories,
                   netCategories, trends>>

NetSpendingOfAll ==
    /\ "net" \notin pc
    /\ netCategories' = calculateNetSpendingByCategory(transactions)
    /\ pc' = pc \cup {"net"}
    /\ UNCHANGED <<inputVars, dashboardVars, summaryStats, categories,
                   periods, trends>>

TrendsOfAll ==
    /\ "trends" \notin pc
    /\ trends' = calculateSpendingTrends(transactions)
    /\ pc' = pc \cup {"trends"}
    /\ UNCHANGED <<inputVars, dashboardVars, summaryStats, categories,
                   periods, netCategories>>

NextAggregate ==
    \/ SummaryOfAll
    \/ CategoriesOfAll
    \/ PeriodsOfAll
    \/ NetSpendingOfAll
    \/ TrendsOfAll

SpecAggregate == InitAggregate /\ [][NextAggregate]_vars

(* C21: every aggregator is total on the empty collection:                *)
(* calculateSummaryStatistics returns zero counts and sums with null      *)
(* dates, and calculateCategories, calculateTimePeriods,                  *)
(* calculateNetSpendingByCategory and calculateSpendingTrends each return *)
(* an empty list.                                                         *)
C21_AggregatorsTotalOnEmpty ==
    transactions = <<>> =>
        /\ "summary" \in pc =>
               summaryStats =
                   [totalTransactions |-> 0, dateRangeStart |-> None,
                    dateRangeEnd |-> None, totalSpending |-> 0,
                    totalCashback |-> 0, netSpending |-> 0,
                    uniqueCategories |-> 0]
        /\ "categories" \in pc => categories = <<>>
        /\ "periods" \in pc => periods = <<>>
        /\ "net" \in pc => netCategories = <<>>
        /\ "trends" \in pc => trends = <<>>

C21_Witness ==
    /\ transactions = <<>>
    /\ pc = Aggregators
    /\ summaryStats.totalTransactions = 0

----------------------------------------------------------------------------
(* Specification of the row parser: parseTransactionRow(row, rowNumber)    *)

RowCells(ts, type, desc, status, amount, card, holder, cat) ==
    [key \in Range(ALL_COLUMNS) |->
        CASE key = COL_timestamp -> ts
          [] key = COL_type -> type
          [] key = COL_description -> desc
          [] key = COL_status -> status
          [] key = COL_amountUsd -> amount
          [] key = COL_card -> card
          [] key = COL_cardHolderName -> holder
          [] key = COL_category -> cat
          [] OTHER -> <<>>]

TimestampCells == {<<"2","0","2","4","-","0","1","-","0","2">>, <<"a","b","c">>}

(* a small amount, the threshold and one cent beyond it on both sides, *)
(* and a text that is no number                                        *)
AmountCells ==
    {<<"5">>, <<"1","0","0","0","0">>, <<"-","1","0","0","0","0">>,
     <<"1","0","0","0","0",".","0","1">>,
     <<"-","1","0","0","0","0",".","0","1">>, <<"a","b","c">>}

CategoryCells == {<<>>, <<" ">>, Dining}

RowCases ==
    {RowCells(ts, type, desc, status, amount, card, holder, cat) :
        ts \in TimestampCells, type \in {Purchase, <<" ">>},
        desc \in {CoffeeShop, <<>>}, status \in {Completed, <<>>},
        amount \in AmountCells, card \in {Card1234, <<" ">>},
        holder \in {JaneDoe, <<>>}, cat \in CategoryCells}

(* the header is row 1 *)
RowNumbers == 2..(MaxCsvRows + 1)

InitRow ==
    /\ pc = "init"
    /\ rawRows \in {<<row>> : row \in RowCases}
    /\ transactions = <<>>
    /\ filters = EmptyFilterState
    /\ categories = <<>>
    /\ periods = <<>>
    /\ filtered = <<>>
    /\ refiltered = <<>>
    /\ ingested = NoResult
    /\ csvFile = NoFile
    /\ reingested = NoResult
    /\ validationConfig = DEFAULT_VALIDATION_CONFIG
    /\ papaResults = NoPapaResults
    /\ NothingAggregated
    /\ NoDashboard

ParseTransactionRow ==
    /\ pc = "init"
    /\ \E rowNumber \in RowNumbers :
          rowResult' = [rowNumber |-> rowNumber,
                        result |-> parseTransactionRow(rawRows[1], rowNumber)]
    /\ pc' = "row"
    /\ UNCHANGED <<validationConfig, papaResults, dashboardVars,
                   summaryStats, netCategories, trends,
                   transactions, filters, categories, periods, filtered,
                   refiltered, rawRows, ingested, csvFile, reingested>>

NextRow == ParseTransactionRow

SpecRow == InitRow /\ [][NextRow]_vars

(* C24: a row that parses carries at most one warning, chosen by          *)
(* precedence: MISSING_CATEGORY when its category is blank, whatever the  *)
(* amount; otherwise LARGE_TRANSACTION exactly when abs(amountUsd) is     *)
(* above 10000 (10000 and -10000 give none); otherwise no warning.        *)
C24_OneWarningByPrecedence ==
    (pc = "row" /\ IsSome(rowResult.result.transaction)) =>
        \A t \in {rowResult.result.transaction[1]} :
        \A w \in {rowResult.result.warning} :
            IF BlankText(rawRows[1][COL_category])
            THEN /\ IsSome(w)
                 /\ w[1].type = "MISSING_CATEGORY"
                 /\ w[1].row = rowResult.rowNumber
            ELSE IF t.amountUsd > 10000 * 100 \/ t.amountUsd < -(10000 * 100)
            THEN /\ IsSome(w)
                 /\ w[1].type = "LARGE_TRANSACTION"
                 /\ w[1].row = rowResult.rowNumber
            ELSE w = None

C24_Witness ==
    /\ pc = "row"
    /\ IsSome(rowResult.result.transaction)
    /\ rowResult.result.transaction[1].amountUsd = -(10000 * 100)
    /\ rawRows[1][COL_category] = Dining
    /\ rowResult.result.warning = None

(* C25: parseTransactionRow validates in a fixed order and reports only   *)
(* the first failure: an unparseable timestamp gives INVALID_DATA_TYPE on *)
(* column timestamp even when the amount or required fields are bad too;  *)
(* otherwise an unparseable amount gives INVALID_DATA_TYPE on column      *)
(* amount USD; otherwise the first blank field in the order type,         *)
(* description, status, card, card holder name gives VALIDATION_FAILED    *)
(* naming that field and the row number.                                  *)
ValidationOrder ==
    <<COL_type, COL_description, COL_status, COL_card, COL_cardHolderName>>

TimestampUnparseable(row) == ~IsSome(parseDate(Some(row[COL_timestamp])))
AmountUnparseable(row) == ~IsSome(parseNumber(Some(row[COL_amountUsd])))

FailsWith(r, type, column, rowNumber) ==
    /\ r.transaction = None
    /\ r.warning = None
    /\ IsSome(r.error)
    /\ r.error[1].type = type
    /\ r.error[1].column = Some(column)
    /\ r.error[1].row = Some(rowNumber)

C25_FirstFailureOnly ==
    pc = "row" =>
        \A row \in {rawRows[1]} : \A r \in {rowResult.result} :
        \A n \in {rowResult.rowNumber} :
            IF TimestampUnparseable(row)
            THEN FailsWith(r, "INVALID_DATA_TYPE", COL_timestamp, n)
            ELSE IF AmountUnparseable(row)
            THEN FailsWith(r, "INVALID_DATA_TYPE", COL_amountUsd, n)
            ELSE \A i \in 1..Len(ValidationOrder) :
                    (/\ BlankText(row[ValidationOrder[i]])
                     /\ \A j \in 1..(i - 1) :
                           ~BlankText(row[ValidationOrder[j]])) =>
                        /\ FailsWith(r, "VALIDATION_FAILED",
                                     ValidationOrder[i], n)
                        /\ r.error[1].message =
                               <<"Required field is empty in row", n,
                                 ValidationOrder[i]>>

(* a row with an unreadable date, an unreadable amount and a blank type *)
C25_Witness ==
    /\ pc = "row"
    /\ TimestampUnparseable(rawRows[1])
    /\ AmountUnparseable(rawRows[1])
    /\ BlankText(rawRows[1][COL_type])
    /\ FailsWith(rowResult.result, "INVALID_DATA_TYPE", COL_timestamp,
                 rowResult.rowNumber)

----------------------------------------------------------------------------
(* Specification of the filter state: any sequence of updates and clears  *)

(* one description with a space in it and one without *)
CafeBar == <<"C","a","f","e"," ","B","a","r">>

FilterStatePool ==
    {Tx(LateOnDay1, Cafe, 1, None, None),
     Tx(FirstOfDay2, CafeBar, 1, None, Some(Dining))}

(* every field set, set to an empty value and unset again; a search term *)
(* of white space only                                                    *)
FilterStateUpdates ==
    {[searchTerm |-> v] :
        v \in {None, Some(<<>>), Some(<<" ">>), Some(<<"c","a">>)}}
    \cup {[selectedCategories |-> v] :
             v \in {None, Some(<<>>), Some(<<Dining>>)}}
    \cup {[dateRangeStart |-> v] : v \in {None, Some(FirstOfDay2)}}
    \cup {[dateRangeEnd |-> v] : v \in {None, Some(LateOnDay1)}}
    \cup {[searchTerm |-> None, dateRangeEnd |-> None], << >>}

InitFilterState ==
    /\ pc = "init"
    /\ transactions \in SeqsUpTo(FilterStatePool, MaxFilterTx)
    /\ filters = createEmptyFilterState
    /\ categories = <<>>
    /\ periods = <<>>
    /\ filtered = <<>>
    /\ refiltered = <<>>
    /\ rawRows = <<>>
    /\ ingested = NoResult
    /\ csvFile = NoFile
    /\ reingested = NoResult
    /\ validationConfig = DEFAULT_VALIDATION_CONFIG
    /\ papaResults = NoPapaResults
    /\ NothingAggregated
    /\ NoDashboard

filterStateFrame ==
    <<validationConfig, papaResults, aggregateVars, dashboardVars,
      transactions, categories, periods, refiltered, rawRows, ingested,
      csvFile, reingested>>

UpdateFilters ==
    /\ \E u \in FilterStateUpdates : filters' = updateFilterState(filters, u)
    /\ pc' = "init"
    /\ filtered' = <<>>
    /\ UNCHANGED filterStateFrame

ClearFilters ==
    /\ filters' = clearAllFilters
    /\ pc' = "init"
    /\ filtered' = <<>>
    /\ UNCHANGED filterStateFrame

FilterWithState ==
    /\ pc = "init"
    /\ filtered' = applyFilters(transactions, filters)
    /\ pc' = "filtered"
    /\ UNCHANGED <<filterStateFrame, filters>>

NextFilterState == UpdateFilters \/ ClearFilters \/ FilterWithState

SpecFilterState == InitFilterState /\ [][NextFilterState]_vars

(* C26: activeFilterCount is always derived: in the state of              *)
(* createEmptyFilterState and after any sequence of updateFilterState and *)
(* clearAllFilters, updates that unset fields included, the stored count  *)
(* equals calculateActiveFilterCount of the state's own fields and lies   *)
(* in 0..4.                                                               *)
C26_ActiveFilterCountDerived ==
    /\ filters.activeFilterCount = calculateActiveFilterCount(filters)
    /\ filters.activeFilterCount \in 0..4

(* three filters left active after the search term was set and unset or  *)
(* blanked again                                                          *)
C26_Witness ==
    /\ pc = "filtered"
    /\ filters.searchTerm \in {None, Some(<<>>), Some(<<" ">>)}
    /\ filters.selectedCategories = Some(<<Dining>>)
    /\ IsSome(filters.dateRangeStart)
    /\ IsSome(filters.dateRangeEnd)
    /\ filters.activeFilterCount = 3

(* C27: for every filter specification whose calculateActiveFilterCount   *)
(* is 0, a search term of white space only included, applyFilters returns *)
(* all the transactions in their input order.                             *)
C27_ZeroCountIsIdentity ==
    (pc = "filtered" /\ calculateActiveFilterCount(filters) = 0) =>
        filtered = transactions

----------------------------------------------------------------------------
(* Contiguity of the monthly periods                                       *)

(* the number of the calendar month of a date, counted over the years *)
MonthIndex(d) == getFullYear(d) * MonthsPerYear + getMonth(d)

(* C29: the periods returned by calculateTimePeriods are contiguous: each *)
(* period is the calendar month that follows the month of the period     *)
(* before it, no month between the first and the last is missing.        *)
C29_PeriodsContiguous ==
    pc = "periods" =>
        \A i \in 1..(Len(periods) - 1) :
            MonthIndex(periods[i + 1].periodStart)
                = MonthIndex(periods[i].periodStart) + 1

----------------------------------------------------------------------------
(* Specification of the dashboard page and its upload component:          *)
(* src/src/app/page.tsx, src/src/components/FileUpload.tsx                *)

(* handleUploadSuccess, handleUploadError, handleClearData on the page's  *)
(* state [transactions, error]                                            *)
handleUploadSuccess(page, newTransactions) ==
    [transactions |-> newTransactions, error |-> None]

handleUploadErrorClearingTransactions(page, errorMessage) ==
    [transactions |-> <<>>, error |-> Some(errorMessage)]

handleUploadError(page, errorMessage) ==
    [transactions |-> page.transactions, error |-> Some(errorMessage)]

handleClearData(page) == [transactions |-> <<>>, error |-> None]

(* what handleFileSelect and handleDrop do with the result of             *)
(* parseCSVFile: the callback they call and its argument; the message of  *)
(* an error is a sequence of lines                                        *)
uploadOutcome(result) ==
    IF Len(result.errors) > 0
    THEN [callback |-> "onUploadError",
          argument |-> <<"Failed to parse CSV:">>
                       \o [i \in 1..Len(result.errors) |->
                              result.errors[i].message]]
    ELSE IF Len(result.transactions) = 0
    THEN [callback |-> "onUploadError",
          argument |-> <<"No valid transactions found in the CSV file.">>]
    ELSE [callback |-> "onUploadSuccess", argument |-> result.transactions]

(* the page after the callback of an outcome *)
pageAfter(page, outcome) ==
    IF outcome.callback = "onUploadSuccess"
    THEN handleUploadSuccess(page, outcome.argument)
    ELSE handleUploadError(page, outcome.argument)

ValidRow ==
    RawRow(<<"2","0","2","4","-","0","1","-","0","2">>, CoffeeShop,
           <<"-","4",".","5","0">>, JaneDoe,
           <<>>, <<>>, <<"0",".","0","5">>, Dining)

LargeRow ==
    RawRow(<<"2","/","1","/","2","0","2","5">>, CoffeeShop,
           <<"1","5","0","0","0">>, JaneDoe,
           <<>>, <<>>, <<>>, Groceries)

BadDateRow ==
    RawRow(<<"a","b","c">>, CoffeeShop, <<"-","4",".","5","0">>, JaneDoe,
           <<>>, <<>>, <<>>, Dining)

FileOf(name, rows) ==
    [name |-> name, size |-> Len(uploadText(ALL_COLUMNS, rows)),
     text |-> uploadText(ALL_COLUMNS, rows)]

(* two files that parse, a file with a good and a bad row, a file with a *)
(* bad row only, a file that is no .csv and a file above the size limit  *)
DashboardFiles ==
    {FileOf(<<"a",".","c","s","v">>, <<ValidRow>>),
     FileOf(<<"b",".","c","s","v">>, <<LargeRow>>),
     FileOf(<<"c",".","c","s","v">>, <<ValidRow, BadDateRow>>),
     FileOf(<<"d",".","c","s","v">>, <<BadDateRow>>),
     FileOf(<<"a",".","t","x","t">>, <<ValidRow>>),
     [name |-> <<"e",".","c","s","v">>, size |-> 10 * 1024 * 1024 + 1,
      text |-> <<>>]}

(* parseCSVFile(file) with the default configuration, as FileUpload calls *)
(* it, for each file of the model                                         *)
ParsedFiles == [file \in DashboardFiles |-> parseCSVFile(file, <<>>)]

Pending(us) == {i \in 1..Len(us) : us[i].status = "pending"}

InitDashboard ==
    /\ pc = "page"
    /\ transactions = <<>>
    /\ error = None
    /\ isLoading = FALSE
    /\ fileName = None
    /\ uploads = <<>>
    /\ summaryStats = calculateSummaryStatistics(<<>>)
    /\ netCategories = <<>>
    /\ trends = <<>>
    /\ rowResult = <<>>
    /\ filters = EmptyFilterState
    /\ categories = <<>>
    /\ periods = <<>>
    /\ filtered = <<>>
    /\ refiltered = <<>>
    /\ rawRows = <<>>
    /\ ingested = NoResult
    /\ csvFile = NoFile
    /\ reingested = NoResult
    /\ validationConfig = DEFAULT_VALIDATION_CONFIG
    /\ papaResults = NoPapaResults

dashboardFrame ==
    <<pc, filters, categories, periods, filtered, refiltered, rawRows,
      ingested, csvFile, reingested, validationConfig, papaResults,
      netCategories, trends, rowResult>>

(* the page renders with a new state: summaryStats is recomputed *)
Render(page) ==
    /\ transactions' = page.transactions
    /\ error' = page.error
    /\ summaryStats' = calculateSummaryStatistics(page.transactions)

(* setFileName(file.name); setIsLoading(true); await parseCSVFile(file):  *)
(* a file that fails the size or the name check is answered before any   *)
(* other event and the handler runs to its end; any other file is handed *)
(* to Papa and the handler waits                                         *)
startUpload(file, handler) ==
    /\ Len(uploads) < MaxUploads
    /\ fileName' = Some(file.name)
    /\ IF IsSome(fileChecks(file, mergeConfig(<<>>)))
       THEN /\ uploads' = Append(uploads,
                   [file |-> file, handler |-> handler,
                    startedWhilePending |-> Pending(uploads),
                    status |-> "resolved",
                    result |-> Some(ParsedFiles[file])])
            /\ isLoading' = FALSE
            /\ Render(pageAfter([transactions |-> transactions,
                                 error |-> error],
                                uploadOutcome(ParsedFiles[file])))
       ELSE /\ uploads' = Append(uploads,
                   [file |-> file, handler |-> handler,
                    startedWhilePending |-> Pending(uploads),
                    status |-> "pending", result |-> None])
            /\ isLoading' = TRUE
            /\ UNCHANGED <<transactions, error, summaryStats>>
    /\ UNCHANGED dashboardFrame

(* the input is disabled while isLoading *)
HandleFileSelect ==
    /\ ~isLoading
    /\ \E file \in DashboardFiles : startUpload(file, "handleFileSelect")

HandleDrop ==
    \E file \in DashboardFiles :
        IF ~endsWith(file.name, <<".","c","s","v">>)
        THEN /\ Render(handleUploadError(
                    [transactions |-> transactions, error |-> error],
                    <<"Please upload a CSV file (.csv extension)">>))
             /\ UNCHANGED <<isLoading, fileName, uploads, dashboardFrame>>
        ELSE startUpload(file, "handleDrop")

(* the promise of a started parse resolves, by Papa's `complete` or by    *)
(* its `error` callback, and the handler that awaited it goes on          *)
resolveUpload(i, result) ==
    /\ uploads' = [uploads EXCEPT ![i].status = "resolved",
                                  ![i].result = Some(result)]
    /\ Render(pageAfter([transactions |-> transactions, error |-> error],
                        uploadOutcome(result)))
    /\ isLoading' = FALSE
    /\ UNCHANGED <<fileName, dashboardFrame>>

ParseResolves ==
    \E i \in Pending(uploads) :
        \E result \in {ParsedFiles[uploads[i].file], papaError} :
            resolveUpload(i, result)

(* the Clear Data button is rendered when there are transactions *)
HandleClearData ==
    /\ Len(transactions) > 0
    /\ Render(handleClearData([transactions |-> transactions,
                               error |-> error]))
    /\ UNCHANGED <<isLoading, fileName, uploads, dashboardFrame>>

NextDashboard ==
    HandleFileSelect \/ HandleDrop \/ ParseResolves \/ HandleClearData

SpecDashboard == InitDashboard /\ [][NextDashboard]_vars

----------------------------------------------------------------------------
(* Properties of the dashboard                                             *)

(* upload i resolves in this step *)
ResolvesNow(i) ==
    /\ i \in Pending(uploads)
    /\ Len(uploads') = Len(uploads)
    /\ uploads'[i].status = "resolved"

(* a result the component hands to onUploadSuccess *)
Successful(result) == result.errors = <<>> /\ result.transactions # <<>>

RowLevelErrors(result) ==
    {k \in 1..Len(result.errors) : IsSome(result.errors[k].row)}

(* C22: when an uploaded file yields at least one valid transaction and  *)
(* at least one row-level error, the upload flow loads the valid         *)
(* transactions into the dashboard.                                      *)
C22_PartialUploadLoadsValidRows ==
    [][\A i \in 1..Len(uploads) :
          (/\ ResolvesNow(i)
           /\ uploads'[i].result[1].transactions # <<>>
           /\ RowLevelErrors(uploads'[i].result[1]) # {})
          => transactions' = uploads'[i].result[1].transactions]_vars

(* the page shows what the component reported for the result *)
Reflects(result, shownTransactions, shownError) ==
    IF Successful(result)
    THEN shownTransactions = result.transactions /\ shownError = None
    ELSE shownError = Some(uploadOutcome(result).argument)

(* C23: when two uploads overlap, whichever of the two completes last,   *)
(* the dashboard's transactions and error end up reflecting the upload   *)
(* that was started later, never the one started earlier.                *)
C23_LaterStartedUploadWins ==
    [][\A i \in 1..Len(uploads) :
          (/\ Len(uploads) = 2
           /\ 1 \in uploads[2].startedWhilePending
           /\ ResolvesNow(i)
           /\ Pending(uploads') = {})
          => Reflects(uploads'[2].result[1], transactions', error')]_vars

(* C28: the dashboard's transactions change only by full replacement: a  *)
(* successful upload sets them to exactly the new result and clears the  *)
(* error; a failed upload sets the error and leaves the transactions as  *)
(* they were; Clear Data empties the transactions and clears the error.  *)
C28_TransactionsOnlyReplaced ==
    [][/\ \A i \in 1..Len(uploads) :
             ResolvesNow(i) =>
                 IF Successful(uploads'[i].result[1])
                 THEN /\ transactions' = uploads'[i].result[1].transactions
                      /\ error' = None
                 ELSE /\ transactions' = transactions
                      /\ IsSome(error')
       /\ (Len(uploads') > Len(uploads)
           /\ uploads'[Len(uploads')].status = "resolved")
          => /\ transactions' = transactions
             /\ IsSome(error')
       /\ (uploads' = uploads /\ transactions' # transactions)
          => /\ transactions' = <<>>
             /\ error' = None
       /\ (uploads' = uploads /\ transactions' = transactions)
          => IsSome(error')]_vars

(* a failed upload after a successful one: the error is shown and the    *)
(* transactions of the successful upload are still there                 *)
C28_Witness ==
    /\ Len(uploads) = 2
    /\ Pending(uploads) = {}
    /\ Successful(uploads[1].result[1])
    /\ ~Successful(uploads[2].result[1])
    /\ uploads[2].startedWhilePending = {}
    /\ transactions = uploads[1].result[1].transactions
    /\ IsSome(error)

(* C30: isLoading is true whenever at least one started parseCSVFile     *)
(* call has not resolved, a second file dropped during an earlier parse  *)
(* included, and false once every started parse has resolved.            *)
C30_LoadingWhileAnyParsePending ==
    isLoading <=> Pending(uploads) # {}

====
